---- MODULE Spec2Model ----
(***************************************************************************)
(* Verification model of the OSU PAL portal (charlieautry/osu-pal).        *)
(*                                                                         *)
(* The module holds several specifications over one set of variables:      *)
(*   SpecRL       the in-memory rate limiter, driven by arbitrary calls     *)
(*   SpecSec      the security tracker / blacklist, driven by logged events *)
(*   SpecIntake   POST /api/public/request with the other rate-limited      *)
(*                public endpoints sharing the limiter                      *)
(*   SpecAdmin    the admin endpoints over the catalog and the file store   *)
(*   SpecValidate validateRequestData as a pure function of its input       *)
(*   SpecBlacklist blacklistIP and its removal timers                       *)
(*   SpecTerm     termForDate as a pure function of its input               *)
(*   SpecSearch   the query of GET /api/public/list over a fixed catalogue  *)
(*   SpecPaginate the pagination of a row sequence                          *)
(*   SpecHome     the public page: filters, search box, sorting, paging and *)
(*                its list fetches                                          *)
(* Time is the value of Date.now() in milliseconds.                        *)
(***************************************************************************)
EXTENDS Integers, Sequences, FiniteSets, Bags, TLC

VARIABLES
  now,             \* Date.now(), ms
  ticks,           \* number of clock advances so far (bounds the run)
  rateLimitStore,  \* Map<string, RateLimitEntry>
  allowed,         \* history (SpecRL): per identifier and limit, calls allowed since the entry was created
  rlLast,          \* history (SpecRL): the last checkRateLimit call (identifier, limit, window, result)
  unswept,         \* history (SpecRL): the store and the last result had no call run the sweep
  suspiciousIPs,   \* Map<string, SuspiciousActivity>
  blacklistedIPs,  \* Set<string>
  timers,          \* pending setTimeout callbacks of blacklistIP, a bag of [ip, at]
  failHist,        \* history (SpecSec): times of the tracked events of an ip since it was last blacklisted
  requests,        \* rows of the requests table, in insertion order
  hs,              \* POST /api/public/request handlers in flight
  requestWindow,   \* history: a limiter store fed by the calls to POST /api/public/request alone
  lastResponse,    \* history: the response POST /api/public/request sent last
  overlap,         \* history: two request handlers have been in flight at once
  endpointCalls,   \* number of calls to the other rate-limited endpoints (bounds the run)
  calls,           \* number of calls counted against the bound of the specification
  files,           \* paths of the objects in the pdfs storage bucket
  pdfs,            \* rows of the pdfs table
  adm,             \* the admin call in flight
  lastAdmin,       \* history: the response an admin endpoint sent last
  uploads,         \* number of upload paths made so far (bounds the run)
  valInput,        \* the argument of the function a specification applies
  valResult,       \* the value the function returned for valInput
  home,            \* the React state of the public page (Home)
  net,             \* the fetches and the debounce timer of the public page that are pending
  seen             \* history (SpecHome): the last event, what the rows and the page were set for,
                   \* and the options and the professor before the event

rlVars == <<rateLimitStore, allowed, rlLast, unswept>>
secVars == <<suspiciousIPs, blacklistedIPs, timers, failHist>>
intakeVars == <<requests, hs, lastResponse, requestWindow, overlap, endpointCalls, calls>>
clockVars == <<now, ticks>>
adminVars == <<files, pdfs, adm, lastAdmin, uploads>>
valVars == <<valInput, valResult>>
homeVars == <<home, net, seen>>
restVars == <<adminVars, valVars, homeVars>>
vars == <<clockVars, rlVars, secVars, intakeVars, restVars>>

----------------------------------------------------------------------------
(* Bounds of the model and the input sets.                                  *)

MaxTicks == 2
MaxIntakeTicks == 1
MaxLimit == 2
MaxWindow == 1
MaxRLCalls == 4
MaxEvents == 21
MaxCalls == 2
MaxEndpointCalls == 3
MaxUploads == 2
MaxBlacklistCalls == 3

\* the limits and windows checkRateLimit is called with in SpecRL
Limits == 1 .. MaxLimit
Windows == 0 .. MaxWindow
NoCall == [identifier |-> "", limit |-> 0, windowMs |-> 0, ok |-> TRUE]

IPs == {"ip1", "ip2"}
\* the clients of the security tracker and of the endpoints
Clients == {"ip1"}

Minute == 60 * 1000
Hour == 60 * 60 * 1000
Day == 24 * 60 * 60 * 1000

----------------------------------------------------------------------------
(* JavaScript Map as a function whose domain is the set of keys present.    *)

EmptyMap == [k \in {} |-> 0]

MapSet(m, key, value) ==
  [k \in DOMAIN m \cup {key} |-> IF k = key THEN value ELSE m[k]]

MapDelete(m, keys) == [k \in DOMAIN m \ keys |-> m[k]]

----------------------------------------------------------------------------
(* Rate limiter: lib/security checkRateLimit.                               *)

\* the sweep with now >= value.resetTime: deletes an entry at its reset time
SweepExpiredAtReset(store, t, sweep) ==
  IF sweep
    THEN MapDelete(store, {k \in DOMAIN store : t >= store[k].resetTime})
    ELSE store

\* if (Math.random() < 0.01) delete every entry with now > value.resetTime
SweepExpired(store, t, sweep) ==
  IF sweep
    THEN MapDelete(store, {k \in DOMAIN store : t > store[k].resetTime})
    ELSE store

\* now > entry.resetTime, read as >=: resets the window at its reset time
WindowExpiredAtReset(store, identifier, t) ==
  identifier \notin DOMAIN store \/ t >= store[identifier].resetTime

\* !entry || now > entry.resetTime  (entry is read before the sweep)
WindowExpired(store, identifier, t) ==
  identifier \notin DOMAIN store \/ t > store[identifier].resetTime

\* entry.count >= limit, read as > limit: lets one call too many through
LimitReachedOffByOne(entry, limit) == entry.count > limit

\* entry.count >= limit
LimitReached(entry, limit) == entry.count >= limit

\* the value checkRateLimit returns
checkRateLimit(store, identifier, limit, t) ==
  \/ WindowExpired(store, identifier, t)
  \/ ~LimitReached(store[identifier], limit)

\* the store checkRateLimit leaves behind
StoreAfterCheck(store, identifier, limit, windowMs, t, sweep) ==
  LET swept == SweepExpired(store, t, sweep) IN
  IF WindowExpired(store, identifier, t)
    THEN MapSet(swept, identifier, [count |-> 1, resetTime |-> t + windowMs])
    ELSE IF LimitReached(store[identifier], limit)
      THEN swept
      ELSE [swept EXCEPT ![identifier].count = @ + 1]

\* history kept beside the store: the calls with each limit that returned
\* true since the identifier's current entry was created
AllowedAfterCheck(a, store, identifier, limit, t) ==
  IF WindowExpired(store, identifier, t)
    THEN [a EXCEPT ![identifier] = [n \in DOMAIN a[identifier] |-> IF n = limit THEN 1 ELSE 0]]
    ELSE IF checkRateLimit(store, identifier, limit, t)
      THEN [a EXCEPT ![identifier][limit] = @ + 1]
      ELSE a

----------------------------------------------------------------------------
(* Security tracker and blacklist: lib/securityMiddleware.                  *)

Sec == [suspiciousIPs |-> suspiciousIPs, blacklistedIPs |-> blacklistedIPs, timers |-> timers]

SetSec(s) ==
  /\ suspiciousIPs' = s.suspiciousIPs
  /\ blacklistedIPs' = s.blacklistedIPs
  /\ timers' = s.timers

\* blacklistedIPs.add(ip); setTimeout(() => blacklistedIPs.delete(ip), durationMs)
blacklistIP(s, ip, durationMs, t) ==
  [s EXCEPT !.blacklistedIPs = @ \cup {ip},
            !.timers = @ (+) SetToBag({[ip |-> ip, at |-> t + durationMs]})]

isBlacklisted(s, ip) == ip \in s.blacklistedIPs

\* activity.failedAttempts >= 10, read as > 10: blacklists one failure late
ThresholdReachedLate(failedAttempts) == failedAttempts > 10

\* activity.failedAttempts >= 10
ThresholdReached(failedAttempts) == failedAttempts >= 10

trackSuspiciousActivity(s, ip, t) ==
  LET activity == IF ip \in DOMAIN s.suspiciousIPs
                    THEN s.suspiciousIPs[ip]
                    ELSE [failedAttempts |-> 0, lastAttempt |-> 0]
      failed == IF t - activity.lastAttempt > Hour THEN 1 ELSE activity.failedAttempts + 1
  IN IF ThresholdReached(failed)
       THEN [blacklistIP(s, ip, Day, t) EXCEPT !.suspiciousIPs = MapDelete(@, {ip})]
       ELSE [s EXCEPT !.suspiciousIPs =
                        MapSet(@, ip, [failedAttempts |-> failed, lastAttempt |-> t])]

EventTypes == {"rate_limit", "turnstile_fail", "validation_error", "blacklist", "suspicious"}

\* the event kinds that feed the failure counter
TrackedTypes == {"turnstile_fail", "rate_limit", "validation_error"}

logSecurityEvent(s, type, ip, t) ==
  IF type \in TrackedTypes THEN trackSuspiciousActivity(s, ip, t) ELSE s

\* history kept beside the tracker: the times of the tracked events of ip
\* since blacklistIP was last called for it
FailHistAfter(h, before, after, type, ip, t) ==
  IF type \notin TrackedTypes THEN h
  ELSE IF after.timers # before.timers THEN [h EXCEPT ![ip] = <<>>]
  ELSE [h EXCEPT ![ip] = Append(@, t)]

----------------------------------------------------------------------------
(* Request validation: lib/security validateRequestData.  A JavaScript      *)
(* value is a record: kind "string" with its characters, or "undefined",    *)
(* "null", or "number" (a truthy value that is no string).                  *)

Str(chars) == [kind |-> "string", chars |-> chars]
Undefined == [kind |-> "undefined", chars |-> <<>>]
Null == [kind |-> "null", chars |-> <<>>]
NonString == [kind |-> "number", chars |-> <<>>]

IsString(v) == v.kind = "string"
Truthy(v) == v.kind = "number" \/ (v.kind = "string" /\ v.chars # <<>>)

Whitespace == {" "}

SetMin(S) == CHOOSE i \in S : \A j \in S : i <= j
SetMax(S) == CHOOSE i \in S : \A j \in S : i >= j

\* String.prototype.trim
Trim(s) ==
  LET keep == {i \in 1 .. Len(s) : s[i] \notin Whitespace} IN
  IF keep = {} THEN <<>> ELSE SubSeq(s, SetMin(keep), SetMax(keep))

LowerChar(c) ==
  CASE c = "A" -> "a" [] c = "B" -> "b" [] c = "U" -> "u" [] c = "X" -> "x"
    [] c = "C" -> "c" [] c = "S" -> "s" [] c = "F" -> "f" [] OTHER -> c

\* String.prototype.toLowerCase
ToLowerCase(s) == [i \in 1 .. Len(s) |-> LowerChar(s[i])]

\* /^[^\s@]+@[^\s@]+\.[^\s@]+$/.test(s)
EmailRegexTest(s) ==
  \E at \in 1 .. Len(s) : \E dot \in 1 .. Len(s) :
    /\ s[at] = "@"
    /\ s[dot] = "."
    /\ 1 < at /\ at + 1 < dot /\ dot < Len(s)
    /\ \A i \in 1 .. Len(s) : i # at => s[i] \notin Whitespace \cup {"@"}

\* s.replace(/<[^<>]*>/g, ''): a match holds no '<' after its first character
RECURSIVE StripTagsInnermost(_)
StripTagsInnermost(s) ==
  LET opens == {i \in 1 .. Len(s) :
                  /\ s[i] = "<"
                  /\ \E j \in i + 1 .. Len(s) :
                       s[j] = ">" /\ \A k \in i + 1 .. j - 1 : s[k] \notin {"<", ">"}} IN
  IF opens = {} THEN s
  ELSE LET i == SetMin(opens)
           j == SetMin({k \in i + 1 .. Len(s) : s[k] = ">"})
       IN SubSeq(s, 1, i - 1) \o StripTagsInnermost(SubSeq(s, j + 1, Len(s)))

\* s.replace(/<[^>]*>/g, ''): each match runs from a '<' to the first '>' after it
RECURSIVE StripTags(_)
StripTags(s) ==
  LET opens == {i \in 1 .. Len(s) : s[i] = "<" /\ \E j \in i + 1 .. Len(s) : s[j] = ">"} IN
  IF opens = {} THEN s
  ELSE LET i == SetMin(opens)
           j == SetMin({k \in i + 1 .. Len(s) : s[k] = ">"})
       IN SubSeq(s, 1, i - 1) \o StripTags(SubSeq(s, j + 1, Len(s)))

MaxCourseLen == 50
MaxEmailLen == 100
MaxDetailsLen == 500

CourseErrors(course) ==
  IF ~Truthy(course) \/ ~IsString(course)
    THEN <<"Course is required and must be a string">>
  ELSE IF Len(course.chars) > MaxCourseLen
    THEN <<"Course name must be 50 characters or less">>
  ELSE IF Len(Trim(course.chars)) = 0 THEN <<"Course cannot be empty">>
  ELSE <<>>

EmailErrors(email) ==
  IF Truthy(email) /\ IsString(email) /\ Len(Trim(email.chars)) > 0
    THEN IF ~EmailRegexTest(Trim(email.chars)) THEN <<"Email format is invalid">>
         ELSE IF Len(Trim(email.chars)) > MaxEmailLen
           THEN <<"Email must be 100 characters or less">>
         ELSE <<>>
    ELSE <<>>

SanitizedEmail(email) ==
  IF Truthy(email) /\ IsString(email) /\ Len(Trim(email.chars)) > 0
     /\ EmailErrors(email) = <<>>
    THEN Str(ToLowerCase(Trim(email.chars)))
    ELSE Null

DetailsErrors(details) ==
  IF Truthy(details) /\ IsString(details) /\ Len(Trim(details.chars)) > 0
     /\ Len(Trim(details.chars)) > MaxDetailsLen
    THEN <<"Details must be 500 characters or less">>
    ELSE <<>>

SanitizedDetails(details) ==
  IF Truthy(details) /\ IsString(details) /\ Len(Trim(details.chars)) > 0
     /\ DetailsErrors(details) = <<>>
    THEN Str(StripTags(Trim(details.chars)))
    ELSE Null

NoSanitizedData == [course |-> Undefined, email |-> Undefined, details |-> Undefined]

validateRequestData(data) ==
  LET errors == CourseErrors(data.course) \o EmailErrors(data.email) \o DetailsErrors(data.details)
      isValid == Len(errors) = 0
  IN [isValid |-> isValid,
      errors |-> errors,
      sanitizedData |-> IF isValid
                          THEN [course |-> Str(Trim(data.course.chars)),
                                email |-> SanitizedEmail(data.email),
                                details |-> SanitizedDetails(data.details)]
                          ELSE NoSanitizedData]

----------------------------------------------------------------------------
(* The clock and the timer queue of the process.                            *)

PendingTimers == BagToSet(timers)

\* the callback of blacklistIP's setTimeout runs once its time has come
TimerFire(tm) ==
  /\ tm \in PendingTimers
  /\ now >= tm.at
  /\ blacklistedIPs' = blacklistedIPs \ {tm.ip}
  /\ timers' = timers (-) SetToBag({tm})
  /\ UNCHANGED <<restVars, clockVars, rlVars, suspiciousIPs, failHist, intakeVars>>

\* time passes by d ms, never past a timer that is still to fire
Tick(d) ==
  /\ ticks < MaxTicks
  /\ \A tm \in PendingTimers : tm.at >= now + d
  /\ now' = now + d
  /\ ticks' = ticks + 1
  /\ UNCHANGED <<restVars, rlVars, secVars, intakeVars>>

\* time passes up to the moment the next timer is due
TickToTimer ==
  /\ ticks < MaxTicks
  /\ PendingTimers # {}
  /\ \A tm \in PendingTimers : tm.at > now
  /\ \E tm \in PendingTimers :
       /\ \A other \in PendingTimers : tm.at <= other.at
       /\ now' = tm.at
  /\ ticks' = ticks + 1
  /\ UNCHANGED <<restVars, rlVars, secVars, intakeVars>>

----------------------------------------------------------------------------
(* POST /api/public/request.  A handler runs from one await to the next in  *)
(* one step: "body" awaits request.json(), "captcha" awaits                 *)
(* verifyTurnstileToken, "dupcheck" awaits the duplicate select, "insert"   *)
(* awaits the insert.                                                       *)

Handlers == {1, 2}

NoBody == [malformed |-> FALSE, course |-> Undefined, email |-> Undefined,
           details |-> Undefined, turnstileToken |-> FALSE]

Idle == [pc |-> "idle", ip |-> "", body |-> NoBody, sanitizedData |-> NoSanitizedData,
         twentyFourHoursAgo |-> 0, passed |-> <<>>, idealOk |-> TRUE]

NoResponse == [ip |-> "", status |-> 0, passed |-> <<>>, idealOk |-> TRUE]

Json(course, email, details, token) ==
  [malformed |-> FALSE, course |-> course, email |-> email, details |-> details,
   turnstileToken |-> token]

\* the request bodies clients send
Bodies ==
  { [NoBody EXCEPT !.malformed = TRUE],
    Json(Str(<<" ", "A">>), Str(<<"U", "@", "b", ".", "c">>), Str(<<"<", "b", ">", "x">>), TRUE),
    Json(Str(<<"A">>), Str(<<"u", "@", "b", ".", "c">>), Undefined, TRUE),
    Json(Str(<<"A">>), Undefined, Undefined, TRUE),
    Json(Str(<<" ">>), Str(<<"u", "@", "b", ".", "c">>), Undefined, TRUE),
    Json(Str(<<"A">>), Str(<<"u", "@", "b", ".", "c">>), Undefined, FALSE) }

RequestLimit == 5
ListLimit == 100
DownloadLimit == 30
VerifyLimit == 10

\* the checks of the handler, in the order the handler makes them
CheckOrder == <<"blacklist", "rate_limit", "token", "captcha", "validation">>

\* performSecurityChecks: .allowed, with the events it logs applied to s
\* performSecurityChecks without the rejection of blacklisted identifiers
performSecurityChecksLogOnly(s, ip, suspiciousAgent, t) ==
  [allowed |-> TRUE,
   sec |-> IF suspiciousAgent THEN logSecurityEvent(s, "suspicious", ip, t) ELSE s]

performSecurityChecks(s, ip, suspiciousAgent, t) ==
  IF isBlacklisted(s, ip)
    THEN [allowed |-> FALSE, sec |-> logSecurityEvent(s, "blacklist", ip, t)]
    ELSE [allowed |-> TRUE,
          sec |-> IF suspiciousAgent THEN logSecurityEvent(s, "suspicious", ip, t) ELSE s]

\* the response sent by handler h after the checks in passed
Response(h, code, passed) ==
  [ip |-> hs[h].ip, status |-> code, passed |-> passed, idealOk |-> hs[h].idealOk]

\* handler h returns: its locals are gone and its response is the last one sent
Finish(h, code, passed) ==
  /\ hs' = [hs EXCEPT ![h] = Idle]
  /\ lastResponse' = Response(h, code, passed)

InFlight(h) == hs[h].pc # "idle"

\* lines 33-64: security checks and rate limit, then await request.json()
IntakeStart(h, ip, suspiciousAgent, sweep) ==
  /\ ~InFlight(h)
  /\ \A other \in Handlers : ~InFlight(other) => h <= other
  /\ LET securityCheck == performSecurityChecks(Sec, ip, suspiciousAgent, now)
         rateLimitOk == checkRateLimit(rateLimitStore, ip, RequestLimit, now)
         idealOk == checkRateLimit(requestWindow, ip, RequestLimit, now)
     IN IF ~securityCheck.allowed
          THEN /\ lastResponse' = [ip |-> ip, status |-> 403, passed |-> <<>>, idealOk |-> TRUE]
               /\ SetSec(securityCheck.sec)
               /\ UNCHANGED <<hs, rateLimitStore, requestWindow, calls, overlap>>
          ELSE /\ rateLimitStore' =
                    StoreAfterCheck(rateLimitStore, ip, RequestLimit, Hour, now, sweep)
               /\ requestWindow' =
                    StoreAfterCheck(requestWindow, ip, RequestLimit, Hour, now, FALSE)
               /\ IF ~rateLimitOk
                    THEN /\ lastResponse' = [ip |-> ip, status |-> 429,
                                             passed |-> <<"blacklist">>, idealOk |-> idealOk]
                         /\ SetSec(logSecurityEvent(securityCheck.sec, "rate_limit", ip, now))
                         /\ UNCHANGED <<hs, calls, overlap>>
                    ELSE /\ calls < MaxCalls
                         /\ calls' = calls + 1
                         /\ overlap' = (overlap \/ \E other \in Handlers : InFlight(other))
                         /\ hs' = [hs EXCEPT ![h] =
                                [Idle EXCEPT !.pc = "body", !.ip = ip, !.idealOk = idealOk,
                                             !.passed = <<"blacklist", "rate_limit">>]]
                         /\ SetSec(securityCheck.sec)
                         /\ UNCHANGED lastResponse
  /\ UNCHANGED <<restVars, clockVars, allowed, rlLast, unswept, failHist, requests, endpointCalls>>

\* lines 66-86: request.json() yields the body; a missing token ends the call
IntakeBody(h, body) ==
  /\ hs[h].pc = "body"
  /\ IF body.malformed
       THEN /\ Finish(h, 500, hs[h].passed)
            /\ SetSec(Sec)
       ELSE IF ~body.turnstileToken
         THEN /\ Finish(h, 400, hs[h].passed)
              /\ SetSec(logSecurityEvent(Sec, "turnstile_fail", hs[h].ip, now))
         ELSE /\ hs' = [hs EXCEPT ![h].pc = "captcha", ![h].body = body,
                                  ![h].passed = Append(@, "token")]
              /\ SetSec(Sec)
              /\ UNCHANGED lastResponse
  /\ UNCHANGED <<restVars, clockVars, rlVars, failHist, requests, requestWindow, calls, endpointCalls, overlap>>

\* the record the handler hands to insert, read from the raw body instead
RecordFromRawBody(validation, body) ==
  [course |-> body.course, email |-> body.email, details |-> body.details]

\* the record the handler hands to insert: validation.sanitizedData
RecordToInsert(validation, body) == validation.sanitizedData

\* lines 88-131: the CAPTCHA answer arrives; validation; the duplicate window is set
IntakeCaptcha(h, turnstileValid) ==
  /\ hs[h].pc = "captcha"
  /\ LET validation == validateRequestData(hs[h].body) IN
     IF ~turnstileValid
       THEN /\ Finish(h, 403, hs[h].passed)
            /\ SetSec(logSecurityEvent(Sec, "turnstile_fail", hs[h].ip, now))
       ELSE IF ~validation.isValid
         THEN /\ Finish(h, 400, Append(hs[h].passed, "captcha"))
              /\ SetSec(logSecurityEvent(Sec, "validation_error", hs[h].ip, now))
         ELSE /\ hs' = [hs EXCEPT ![h] =
                     [@ EXCEPT !.pc = IF Truthy(validation.sanitizedData.email)
                                        THEN "dupcheck" ELSE "insert",
                               !.body = NoBody,
                               !.sanitizedData = RecordToInsert(validation, hs[h].body),
                               !.twentyFourHoursAgo = IF Truthy(validation.sanitizedData.email)
                                                        THEN now - Day ELSE 0,
                               !.passed = @ \o <<"captcha", "validation">>]]
              /\ SetSec(Sec)
              /\ UNCHANGED lastResponse
  /\ UNCHANGED <<restVars, clockVars, rlVars, failHist, requests, requestWindow, calls, endpointCalls, overlap>>

\* the id the table gives a new row
NextId(rows) == Len(rows) + 1

\* the rows the duplicate select returns
ExistingRequests(rows, data, since) ==
  {i \in 1 .. Len(rows) :
     /\ rows[i].course = data.course
     /\ rows[i].email = data.email
     /\ rows[i].created_at >= since}

\* lines 133-151: the duplicate select answers
IntakeDupCheck(h, duplicateCheckError) ==
  /\ hs[h].pc = "dupcheck"
  /\ IF duplicateCheckError
       THEN /\ hs' = [hs EXCEPT ![h].pc = "insert"]
            /\ UNCHANGED lastResponse
       ELSE IF ExistingRequests(requests, hs[h].sanitizedData, hs[h].twentyFourHoursAgo) # {}
         THEN Finish(h, 409, hs[h].passed)
         ELSE /\ hs' = [hs EXCEPT ![h].pc = "insert"]
              /\ UNCHANGED lastResponse
  /\ UNCHANGED <<restVars, clockVars, rlVars, secVars, requests, requestWindow, calls, endpointCalls, overlap>>

\* lines 155-175: the insert answers; the table stamps created_at
IntakeInsert(h, error) ==
  /\ hs[h].pc = "insert"
  /\ IF error
       THEN /\ Finish(h, 500, hs[h].passed)
            /\ UNCHANGED requests
       ELSE /\ Finish(h, 200, hs[h].passed)
            /\ requests' = Append(requests,
                 [course |-> hs[h].sanitizedData.course,
                  email |-> hs[h].sanitizedData.email,
                  details |-> hs[h].sanitizedData.details,
                  created_at |-> now,
                  id |-> NextId(requests)])
  /\ UNCHANGED <<restVars, clockVars, rlVars, secVars, requestWindow, calls, endpointCalls, overlap>>

\* the other public endpoints reach shared state only through checkRateLimit
EndpointCall(ip, limit, windowMs, sweep) ==
  /\ endpointCalls < MaxEndpointCalls
  /\ endpointCalls' = endpointCalls + 1
  /\ rateLimitStore' = StoreAfterCheck(rateLimitStore, ip, limit, windowMs, now, sweep)
  /\ UNCHANGED <<restVars, clockVars, allowed, rlLast, unswept, secVars, requests, hs, lastResponse, requestWindow, calls, overlap>>

\* GET /api/public/list
ListCall(ip, sweep) == EndpointCall(ip, ListLimit, 10 * Minute, sweep)

\* GET /api/public/download
DownloadCall(ip, sweep) == EndpointCall(ip, DownloadLimit, 5 * Minute, sweep)

\* POST /api/verify-turnstile
VerifyCall(ip, sweep) == EndpointCall(ip, VerifyLimit, Minute, sweep)

----------------------------------------------------------------------------
(* The admin endpoints over the pdfs table, the pdfs bucket and the         *)
(* requests table.  One admin call is in flight at a time and runs from one *)
(* await to the next in one step; the token check and the admins lookup     *)
(* touch no table and are part of the first step.                           *)

\* bearer tokens: none, one auth.getUser rejects, a user who is no admin, an admin
Tokens == {"", "invalid", "user", "admin"}

MAX_FILE_SIZE == 20 * 1024 * 1024

\* the path of the upload with timestamp n, and the id of its row
PathOf(n) == <<"path", n>>
IdOf(n) == <<"id", n>>
NoPath == <<"path", -1>>
PdfRow(n) == [id |-> IdOf(n), path |-> PathOf(n)]

\* multipart forms sent to the upload endpoint
Form(file, size, type, course_code, date) ==
  [file |-> file, size |-> size, type |-> type, course_code |-> course_code,
   course_number |-> "1113", professor |-> "Smith", date |-> date]

Forms ==
  { Form(TRUE, MAX_FILE_SIZE, "application/pdf", "CS", "2024-01-01"),
    Form(FALSE, 0, "", "CS", "2024-01-01"),
    Form(TRUE, MAX_FILE_SIZE + 1, "application/pdf", "CS", "2024-01-01"),
    Form(TRUE, 1, "text/plain", "CS", "2024-01-01"),
    Form(TRUE, 1, "application/pdf", "", "2024-01-01"),
    Form(TRUE, 1, "application/pdf", "CS", "") }

\* lines 41-48: the first field check that fails, "" when none does
UploadFieldError(form) ==
  IF ~form.file THEN "No file provided"
  ELSE IF form.size > MAX_FILE_SIZE THEN "File too large"
  ELSE IF form.type # "application/pdf" THEN "Only PDF files are allowed"
  ELSE IF form.course_code = "" THEN "Course code is required"
  ELSE IF form.course_number = "" THEN "Course number is required"
  ELSE IF form.professor = "" THEN "Professor name is required"
  ELSE IF form.date = "" THEN "Date is required"
  ELSE ""

IdleAdm == [op |-> "none", pc |-> "idle", token |-> "", identifier |-> NoPath,
            path |-> NoPath, foundBy |-> "none"]

NoAdminResponse == [op |-> "none", token |-> "", status |-> 0, error |-> "", at |-> "idle",
                    touched |-> FALSE, path |-> NoPath, removes |-> 0, removed |-> FALSE]

\* the bearer-token check and the admins lookup: 0 when both pass
Authorize(token, adminErr) ==
  IF token = "" THEN 401
  ELSE IF token = "invalid" THEN 401
  ELSE IF adminErr \/ token # "admin" THEN 403
  ELSE 0

AuthError(status) == IF status = 401 THEN "Unauthorized" ELSE "Forbidden"

\* the admin call in flight answers
AdminRespond(status, error, touched, removes, removed) ==
  /\ lastAdmin' = [op |-> adm.op, token |-> adm.token, status |-> status, error |-> error,
                   at |-> adm.pc, touched |-> touched, path |-> adm.path,
                   removes |-> removes, removed |-> removed]
  /\ adm' = IdleAdm

\* an endpoint that checks the caller answers 401 or 403, or goes on at pc
AdminStart(op, token, adminErr, identifier, pc) ==
  /\ adm.pc = "idle"
  /\ IF Authorize(token, adminErr) # 0
       THEN /\ lastAdmin' = [NoAdminResponse EXCEPT !.op = op, !.token = token,
                               !.status = Authorize(token, adminErr),
                               !.error = AuthError(Authorize(token, adminErr))]
            /\ adm' = IdleAdm
       ELSE /\ adm' = [IdleAdm EXCEPT !.op = op, !.pc = pc, !.token = token,
                                      !.identifier = identifier]
            /\ UNCHANGED lastAdmin

adminFrame == <<clockVars, rlVars, secVars, hs, lastResponse, requestWindow, overlap,
                endpointCalls, calls, valVars, homeVars>>

\* GET /api/admin/list, lines 27-51
DocListStart(token, adminErr) ==
  /\ AdminStart("docList", token, adminErr, NoPath, "select")
  /\ UNCHANGED <<adminFrame, files, pdfs, uploads, requests>>

\* GET /api/admin/list, lines 53-70: the select answers
DocListSelect(error) ==
  /\ adm.op = "docList" /\ adm.pc = "select"
  /\ IF error THEN AdminRespond(500, "error", TRUE, 0, FALSE)
              ELSE AdminRespond(200, "", TRUE, 0, FALSE)
  /\ UNCHANGED <<adminFrame, files, pdfs, uploads, requests>>

\* upload, lines 11-52: the checks, then the path is made from the fields and the time
UploadStart(token, adminErr, form) ==
  /\ adm.pc = "idle"
  /\ IF Authorize(token, adminErr) # 0
       THEN /\ AdminStart("upload", token, adminErr, NoPath, "write")
            /\ UNCHANGED uploads
       ELSE IF UploadFieldError(form) # ""
         THEN /\ lastAdmin' = [NoAdminResponse EXCEPT !.op = "upload", !.token = token,
                                 !.status = 400, !.error = UploadFieldError(form)]
              /\ adm' = IdleAdm
              /\ UNCHANGED uploads
         ELSE /\ uploads < MaxUploads
              /\ uploads' = uploads + 1
              /\ adm' = [IdleAdm EXCEPT !.op = "upload", !.pc = "write", !.token = token,
                                        !.path = PathOf(uploads + 1)]
              /\ UNCHANGED lastAdmin
  /\ UNCHANGED <<adminFrame, files, pdfs, requests>>

\* upload, lines 59-65: storage.upload with upsert false answers
UploadWrite(error) ==
  /\ adm.op = "upload" /\ adm.pc = "write"
  /\ IF error \/ adm.path \in files
       THEN /\ AdminRespond(500, "uploadRes", TRUE, 0, FALSE)
            /\ UNCHANGED files
       ELSE /\ files' = files \cup {adm.path}
            /\ adm' = [adm EXCEPT !.pc = "insert"]
            /\ UNCHANGED lastAdmin
  /\ UNCHANGED <<adminFrame, pdfs, uploads, requests>>

\* upload, lines 68-84: the insert of the metadata row answers
UploadInsert(error) ==
  /\ adm.op = "upload" /\ adm.pc = "insert"
  /\ IF error
       THEN /\ adm' = [adm EXCEPT !.pc = "cleanup"]
            /\ UNCHANGED <<lastAdmin, pdfs>>
       ELSE /\ pdfs' = pdfs \cup {[id |-> IdOf(adm.path[2]), path |-> adm.path]}
            /\ AdminRespond(200, "", TRUE, 0, FALSE)
  /\ UNCHANGED <<adminFrame, files, uploads, requests>>

\* the response after the cleanup, were it to surface the cleanup's own error
CleanupResponseMasked(rmError) ==
  [status |-> 500, error |-> IF rmError THEN "rm" ELSE "insertRes"]

\* upload, line 81: the response after the cleanup
CleanupResponse(rmError) == [status |-> 500, error |-> "insertRes"]

\* upload, lines 80-81: storage.remove of the uploaded file answers
UploadCleanup(rmError) ==
  /\ adm.op = "upload" /\ adm.pc = "cleanup"
  /\ files' = IF rmError THEN files ELSE files \ {adm.path}
  /\ AdminRespond(CleanupResponse(rmError).status, CleanupResponse(rmError).error,
                  TRUE, 1, ~rmError)
  /\ UNCHANGED <<adminFrame, pdfs, uploads, requests>>

\* document delete, lines 4-24
DocDeleteStart(token, adminErr, identifier) ==
  /\ AdminStart("docDelete", token, adminErr, identifier, "lookup")
  /\ UNCHANGED <<adminFrame, files, pdfs, uploads, requests>>

\* document delete, lines 26-45: the row is looked up by path, then by id
DocDeleteLookup(pathErr, idErr) ==
  /\ adm.op = "docDelete" /\ adm.pc = "lookup"
  /\ LET byPath == {row \in pdfs : row.path = adm.identifier}
         byId == {row \in pdfs : row.id = adm.identifier}
     IN IF ~pathErr /\ byPath # {}
          THEN /\ adm' = [adm EXCEPT !.pc = "remove", !.foundBy = "path",
                                     !.path = (CHOOSE row \in byPath : TRUE).path]
               /\ UNCHANGED lastAdmin
          ELSE IF ~idErr /\ byId # {}
            THEN /\ adm' = [adm EXCEPT !.pc = "remove", !.foundBy = "id",
                                       !.path = (CHOOSE row \in byId : TRUE).path]
                 /\ UNCHANGED lastAdmin
            ELSE AdminRespond(404, "Not found", TRUE, 0, FALSE)
  /\ UNCHANGED <<adminFrame, files, pdfs, uploads, requests>>

\* document delete, lines 47-51: storage.remove answers
DocDeleteRemove(rmError) ==
  /\ adm.op = "docDelete" /\ adm.pc = "remove"
  /\ IF rmError
       THEN /\ AdminRespond(500, "rm", TRUE, 1, FALSE)
            /\ UNCHANGED files
       ELSE /\ files' = files \ {adm.path}
            /\ adm' = [adm EXCEPT !.pc = "rowdelete"]
            /\ UNCHANGED lastAdmin
  /\ UNCHANGED <<adminFrame, pdfs, uploads, requests>>

\* document delete, lines 53-64: the delete of the row answers
DocDeleteRow(delError) ==
  /\ adm.op = "docDelete" /\ adm.pc = "rowdelete"
  /\ IF delError
       THEN /\ AdminRespond(500, "del", TRUE, 1, TRUE)
            /\ UNCHANGED pdfs
       ELSE /\ pdfs' = IF adm.foundBy = "path"
                         THEN {row \in pdfs : row.path # adm.path}
                         ELSE {row \in pdfs : row.id # adm.identifier}
            /\ AdminRespond(200, "", TRUE, 1, TRUE)
  /\ UNCHANGED <<adminFrame, files, uploads, requests>>

\* GET /api/admin/requests/list: the select of every request row answers
RequestList(token, error) ==
  /\ adm.pc = "idle"
  /\ lastAdmin' = [NoAdminResponse EXCEPT !.op = "requestList", !.token = token,
                     !.status = IF error THEN 500 ELSE 200,
                     !.error = IF error THEN "Failed to fetch requests" ELSE "",
                     !.touched = TRUE]
  /\ UNCHANGED <<adminFrame, adm, files, pdfs, uploads, requests>>

\* DELETE /api/admin/requests/[id], lines 24-55
RequestDeleteStart(token, adminErr, id) ==
  /\ AdminStart("requestDelete", token, adminErr, id, "delete")
  /\ UNCHANGED <<adminFrame, files, pdfs, uploads, requests>>

\* DELETE /api/admin/requests/[id], lines 57-67: the delete answers
RequestDeleteRow(error) ==
  /\ adm.op = "requestDelete" /\ adm.pc = "delete"
  /\ IF error
       THEN /\ AdminRespond(500, "Failed to delete request", TRUE, 0, FALSE)
            /\ UNCHANGED requests
       ELSE /\ requests' = SelectSeq(requests, LAMBDA row : row.id # adm.identifier)
            /\ AdminRespond(200, "", TRUE, 0, FALSE)
  /\ UNCHANGED <<adminFrame, files, pdfs, uploads>>

\* no admin call was made and the catalog is empty
InitNoAdmin ==
  /\ files = {}
  /\ pdfs = {}
  /\ adm = IdleAdm
  /\ lastAdmin = NoAdminResponse
  /\ uploads = 0

NoValidation == [isValid |-> FALSE, errors |-> <<"not called">>, sanitizedData |-> NoSanitizedData]

\* validateRequestData is not under test
InitNoValidate ==
  /\ valInput = NoBody
  /\ valResult = NoValidation

----------------------------------------------------------------------------
(* SpecIntake: POST /api/public/request and the other public endpoints.     *)

NoHome == [mounted |-> FALSE]

InitNoHome ==
  /\ home = NoHome
  /\ net = NoHome
  /\ seen = NoHome

InitServer ==
  /\ now = 0
  /\ ticks = 0
  /\ rateLimitStore = EmptyMap
  /\ allowed = [ip \in IPs |-> [n \in Limits |-> 0]]
  /\ rlLast = NoCall
  /\ unswept = [store |-> EmptyMap, ok |-> TRUE]
  /\ suspiciousIPs = EmptyMap
  /\ blacklistedIPs = {}
  /\ timers = EmptyBag
  /\ failHist = [ip \in IPs |-> <<>>]
  /\ hs = [h \in Handlers |-> Idle]
  /\ requestWindow = EmptyMap
  /\ overlap = FALSE
  /\ lastResponse = NoResponse
  /\ endpointCalls = 0
  /\ calls = 0

InitCommon == InitServer /\ InitNoHome

InitIntake == InitCommon /\ requests = <<>> /\ InitNoAdmin /\ InitNoValidate

IntakeSteps == {Hour, Day, 2 * Day}

\* the clock of SpecIntake
IntakeTick(d) == ticks < MaxIntakeTicks /\ Tick(d)

IntakeTickToTimer == ticks < MaxIntakeTicks /\ TickToTimer

NextIntake ==
  \/ \E h \in Handlers, ip \in Clients, agent \in BOOLEAN, sweep \in BOOLEAN :
       IntakeStart(h, ip, agent, sweep)
  \/ \E h \in Handlers, body \in Bodies : IntakeBody(h, body)
  \/ \E h \in Handlers, turnstileValid \in BOOLEAN : IntakeCaptcha(h, turnstileValid)
  \/ \E h \in Handlers, duplicateCheckError \in BOOLEAN : IntakeDupCheck(h, duplicateCheckError)
  \/ \E h \in Handlers, error \in BOOLEAN : IntakeInsert(h, error)
  \/ \E ip \in Clients, sweep \in BOOLEAN : ListCall(ip, sweep)
  \/ \E ip \in Clients, sweep \in BOOLEAN : DownloadCall(ip, sweep)
  \/ \E ip \in Clients, sweep \in BOOLEAN : VerifyCall(ip, sweep)
  \/ \E tm \in PendingTimers : TimerFire(tm)
  \/ \E d \in IntakeSteps : IntakeTick(d)
  \/ IntakeTickToTimer

SpecIntake == InitIntake /\ [][NextIntake]_vars

\* C2: a call to POST /api/public/request is rejected with 429 if and only if
\* five of the client's calls to this endpoint have already passed the
\* rate-limit check in the current one-hour window, whatever calls the client
\* makes to the other rate-limited endpoints (the statement of the claim).
C2_OnlyOwnCallsCount ==
  /\ lastResponse.status = 429 => ~lastResponse.idealOk
  /\ \A h \in Handlers : InFlight(h) => hs[h].idealOk

\* C4: a POST /api/public/request from an identifier that is blacklisted is
\* answered 403 with no later check run, and leaves the rate-limit store, the
\* failure tracker, the blacklist, its timers and the requests unchanged.
C4_BlacklistedRejectedFirst ==
  [][\A h \in Handlers, ip \in Clients, agent \in BOOLEAN, sweep \in BOOLEAN :
       (IntakeStart(h, ip, agent, sweep) /\ isBlacklisted(Sec, ip)) =>
         /\ lastResponse' = [ip |-> ip, status |-> 403, passed |-> <<>>, idealOk |-> TRUE]
         /\ hs' = hs
         /\ UNCHANGED <<rateLimitStore, suspiciousIPs, blacklistedIPs, timers, requests>>]_vars

\* C4 witness: the last call was answered 403 before any check passed, its
\* identifier is blacklisted and the store still holds the exhausted window.
C4_Witness ==
  /\ lastResponse.status = 403
  /\ lastResponse.passed = <<>>
  /\ isBlacklisted(Sec, lastResponse.ip)
  /\ lastResponse.ip \in DOMAIN rateLimitStore
  /\ lastResponse.ip \notin DOMAIN suspiciousIPs

\* the checks a handler at pc has passed
PassedAt(pc) ==
  CASE pc = "idle" -> <<>>
    [] pc = "body" -> SubSeq(CheckOrder, 1, 2)
    [] pc = "captcha" -> SubSeq(CheckOrder, 1, 3)
    [] OTHER -> CheckOrder

\* C5: requests grows only by the insert of a handler that passed, in this
\* order, the blacklist check, the rate limiter, the token check, the CAPTCHA
\* verification and validation; a handler that fails a check answers at that
\* check and inserts nothing; the row inserted is validation's sanitized data.
C5_InsertOnlyAfterAllChecks ==
  /\ [](\A h \in Handlers :
          /\ hs[h].passed = PassedAt(hs[h].pc)
          /\ hs[h].pc = "captcha" => hs[h].body.turnstileToken)
  /\ [][/\ \A h \in Handlers :
            /\ (hs[h].pc = "idle" /\ hs'[h].pc = "body") =>
                  /\ ~isBlacklisted(Sec, hs'[h].ip)
                  /\ checkRateLimit(rateLimitStore, hs'[h].ip, RequestLimit, now)
            /\ (hs[h].pc = "captcha" /\ hs'[h].pc \in {"dupcheck", "insert"}) =>
                  /\ validateRequestData(hs[h].body).isValid
                  /\ hs'[h].sanitizedData = validateRequestData(hs[h].body).sanitizedData
            /\ (InFlight(h) /\ ~InFlight(h)' /\ lastResponse'.status # 200) =>
                  /\ lastResponse'.passed = hs[h].passed \/
                       (hs[h].pc = "captcha" /\ lastResponse'.passed = SubSeq(CheckOrder, 1, 4))
                  /\ requests' = requests
        /\ requests' # requests =>
             \E h \in Handlers :
               /\ hs[h].pc = "insert"
               /\ hs[h].passed = CheckOrder
               /\ hs'[h] = Idle
               /\ lastResponse'.status = 200
               /\ requests' = Append(requests,
                    [course |-> hs[h].sanitizedData.course,
                     email |-> hs[h].sanitizedData.email,
                     details |-> hs[h].sanitizedData.details,
                     created_at |-> now,
                     id |-> NextId(requests)])]_vars

\* C5 witness: the last call passed every check and was answered 200, and the
\* row it inserted is the trimmed course, lower-cased email and tag-free details.
C5_Witness ==
  /\ lastResponse.status = 200
  /\ lastResponse.passed = CheckOrder
  /\ Len(requests) >= 1
  /\ requests[Len(requests)].course = Str(<<"A">>)
  /\ requests[Len(requests)].email = Str(<<"u", "@", "b", ".", "c">>)
  /\ requests[Len(requests)].details = Str(<<"x">>)

\* C6: when no two submissions were ever in flight at once, no two rows of
\* requests hold the same (course, email) pair with creation times 24 hours or
\* less apart (the statement of the claim: the second submission is rejected
\* with 409 and not persisted).
C6_NoDuplicateWithinDay ==
  ~overlap =>
    \A i, j \in 1 .. Len(requests) :
      (/\ i < j
       /\ Truthy(requests[i].email)
       /\ requests[i].course = requests[j].course
       /\ requests[i].email = requests[j].email) =>
        requests[j].created_at - requests[i].created_at > Day

\* C21: under every interleaving of the handlers and every outcome of the
\* duplicate select (the error outcome included), no two rows of requests hold
\* the same (course, email) pair, email present, with creation times less than
\* 24 hours apart.
C21_NoDuplicateUnderConcurrency ==
  \A i \in 1 .. Len(requests) :
    \A j \in (i + 1) .. Len(requests) :
      (/\ Truthy(requests[i].email)
       /\ requests[i].course = requests[j].course
       /\ requests[i].email = requests[j].email) =>
        requests[j].created_at - requests[i].created_at >= Day

\* C28: under every interleaving of the handlers, the handler that inserts a
\* row does so for an identifier that is not on the blacklist at that moment.
C28_NoInsertWhileBlacklisted ==
  [][\A h \in Handlers :
       (hs[h].pc = "insert" /\ hs'[h].pc = "idle" /\ Len(requests') = Len(requests) + 1) =>
         ~isBlacklisted(Sec, hs[h].ip)]_vars

\* the step is a rate limit rejection of IntakeStart: the response written is
\* a 429, no handler moves, the clock stands and no timer is taken away
RateLimitRejection ==
  /\ lastResponse'.status = 429
  /\ hs' = hs
  /\ now' = now
  /\ endpointCalls' = endpointCalls
  /\ timers \sqsubseteq timers'

\* C22: a submission answered 429 by the rate limiter leaves the failure
\* tracker, the blacklist (with its removal timers) and the requests table as
\* they were before the call.
C22_RateLimitRejectionFrame ==
  [][RateLimitRejection =>
       UNCHANGED <<suspiciousIPs, blacklistedIPs, timers, requests>>]_vars

----------------------------------------------------------------------------
(* SpecRL: checkRateLimit called with any identifier, limit and window.     *)


RLCall(identifier, limit, windowMs, sweep) ==
  /\ calls < MaxRLCalls
  /\ calls' = calls + 1
  /\ rateLimitStore' = StoreAfterCheck(rateLimitStore, identifier, limit, windowMs, now, sweep)
  /\ allowed' = AllowedAfterCheck(allowed, rateLimitStore, identifier, limit, now)
  /\ rlLast' = [identifier |-> identifier, limit |-> limit, windowMs |-> windowMs,
                ok |-> checkRateLimit(rateLimitStore, identifier, limit, now)]
  /\ unswept' = [store |-> StoreAfterCheck(unswept.store, identifier, limit, windowMs, now, FALSE),
                 ok |-> checkRateLimit(unswept.store, identifier, limit, now)]
  /\ UNCHANGED <<restVars, clockVars, secVars, requests, hs, lastResponse, requestWindow, overlap, endpointCalls>>

InitRL == InitCommon /\ requests = <<>> /\ InitNoAdmin /\ InitNoValidate

NextRL ==
  \/ \E identifier \in IPs, limit \in Limits, windowMs \in Windows, sweep \in BOOLEAN :
       RLCall(identifier, limit, windowMs, sweep)
  \/ Tick(1)

SpecRL == InitRL /\ [][NextRL]_vars

\* C1: of the calls checkRateLimit(id, N, W) made for one identifier while one
\* window entry is current, at most N return true, with or without the sweep.
C1_AtMostNPerWindow ==
  \A ip \in IPs : \A n \in Limits : allowed[ip][n] <= n

\* C1 witness: a call with limit N >= 2 was denied after exactly N calls with
\* that limit were allowed in the current window.
C1_Witness ==
  /\ rlLast.ok = FALSE
  /\ rlLast.limit >= 2
  /\ allowed[rlLast.identifier][rlLast.limit] = rlLast.limit

\* C12: each call checkRateLimit(id, N, W) at time now follows the
\* fixed-window rule: with no entry or now > resetTime the entry becomes
\* (1, now + W) and the call is allowed; else with count >= N the call is
\* denied and the entry stays as it was; else count grows by one, resetTime
\* stays and the call is allowed.
C12_FixedWindowRule ==
  [][calls' # calls =>
       LET identifier == rlLast'.identifier
           limit == rlLast'.limit
           windowMs == rlLast'.windowMs
       IN /\ identifier \in DOMAIN rateLimitStore'
          /\ IF identifier \notin DOMAIN rateLimitStore
                 \/ now > rateLimitStore[identifier].resetTime
               THEN /\ rateLimitStore'[identifier] = [count |-> 1, resetTime |-> now + windowMs]
                    /\ rlLast'.ok
               ELSE IF rateLimitStore[identifier].count >= limit
                 THEN /\ rateLimitStore'[identifier] = rateLimitStore[identifier]
                      /\ ~rlLast'.ok
                 ELSE /\ rateLimitStore'[identifier] =
                           [count |-> rateLimitStore[identifier].count + 1,
                            resetTime |-> rateLimitStore[identifier].resetTime]
                      /\ rlLast'.ok]_vars

\* C12 witness: a call was denied and, after time has passed, its window is
\* still current with the entry holding the count the limit allows.
C12_Witness ==
  /\ rlLast.ok = FALSE
  /\ ticks >= 1
  /\ rlLast.identifier \in DOMAIN rateLimitStore
  /\ rateLimitStore[rlLast.identifier].count >= rlLast.limit
  /\ now <= rateLimitStore[rlLast.identifier].resetTime

\* C26: the sweep deletes only entries whose reset time has passed (an entry
\* the store lacks against the store of the same calls without any sweep is
\* expired, every other entry is the same in both), and each call returns
\* what it returns when no call runs the sweep.
C26_SweepIsInvisible ==
  /\ DOMAIN rateLimitStore \subseteq DOMAIN unswept.store
  /\ \A k \in DOMAIN unswept.store :
       IF k \in DOMAIN rateLimitStore
         THEN rateLimitStore[k] = unswept.store[k]
         ELSE now > unswept.store[k].resetTime
  /\ rlLast.ok = unswept.ok

\* C26 witness: a sweep has deleted an entry and a call after it was denied.
C26_Witness ==
  /\ \E k \in DOMAIN unswept.store : k \notin DOMAIN rateLimitStore
  /\ ~rlLast.ok
  /\ ~unswept.ok

----------------------------------------------------------------------------
(* SpecSec: logSecurityEvent called with any event kind and identifier.     *)

SecLog(type, ip) ==
  /\ calls < MaxEvents
  /\ calls' = IF type \in TrackedTypes THEN calls + 1 ELSE calls
  /\ SetSec(logSecurityEvent(Sec, type, ip, now))
  /\ failHist' = FailHistAfter(failHist, Sec, logSecurityEvent(Sec, type, ip, now), type, ip, now)
  /\ UNCHANGED <<restVars, clockVars, rlVars, requests, hs, lastResponse, requestWindow, overlap, endpointCalls>>

InitSec == InitCommon /\ requests = <<>> /\ InitNoAdmin /\ InitNoValidate

SecSteps == {1, Hour}

NextSec ==
  \/ \E type \in EventTypes, ip \in Clients : SecLog(type, ip)
  \/ \E tm \in PendingTimers : TimerFire(tm)
  \/ \E d \in SecSteps : Tick(d)
  \/ TickToTimer

SpecSec == InitSec /\ [][NextSec]_vars

\* the tracked event logged in this step is the tenth of ten that lie within one hour
TenthWithinHour(ip) ==
  LET h == failHist[ip] IN
  /\ failHist'[ip] # h
  /\ Len(h) >= 9
  /\ now - h[Len(h) - 8] <= Hour

\* C3: the logSecurityEvent call that logs the tenth of ten tracked failures
\* of one identifier within one hour puts the identifier on the blacklist for
\* 24 hours and deletes its tracker entry.
C3_TenthFailureBlacklists ==
  [][\A ip \in IPs :
       TenthWithinHour(ip) =>
         /\ ip \in blacklistedIPs'
         /\ ip \notin DOMAIN suspiciousIPs'
         /\ timers' = timers (+) SetToBag({[ip |-> ip, at |-> now + Day]})]_vars

\* C3 witness: ten events were logged and an identifier is blacklisted with
\* no tracker entry and a removal timer pending.
C3_Witness ==
  \E ip \in IPs :
    /\ calls >= 10
    /\ ip \in blacklistedIPs
    /\ ip \notin DOMAIN suspiciousIPs
    /\ failHist[ip] = <<>>
    /\ \E tm \in PendingTimers : tm.ip = ip /\ tm.at > now

\* C23: the tracker puts an identifier on the blacklist only in a step that
\* logs the tenth of ten tracked failures of that identifier which all lie
\* within one hour: the nine failures before it are at most one hour old.
C23_BlacklistOnlyTenWithinHour ==
  [][\A ip \in IPs :
       timers' = timers (+) SetToBag({[ip |-> ip, at |-> now + Day]}) =>
         /\ Len(failHist[ip]) >= 9
         /\ now - failHist[ip][Len(failHist[ip]) - 8] <= Hour]_vars

----------------------------------------------------------------------------
(* SpecAdmin: the admin endpoints called with any token, over a catalog     *)
(* that holds one document and a requests table that holds one request.    *)

SampleRequest ==
  [course |-> Str(<<"A">>), email |-> Null, details |-> Null, created_at |-> 0, id |-> 1]

InitAdmin ==
  /\ InitCommon
  /\ InitNoValidate
  /\ requests = <<SampleRequest>>
  /\ files = {PathOf(0)}
  /\ pdfs = {PdfRow(0)}
  /\ adm = IdleAdm
  /\ lastAdmin = NoAdminResponse
  /\ uploads = 0

\* the identifiers document delete is called with: a path or an id, known or not
Identifiers == {PathOf(n) : n \in 0 .. MaxUploads} \cup {IdOf(0), IdOf(MaxUploads + 1)}

\* the ids request delete is called with
RequestIds == {1, 2}

NextAdmin ==
  \/ \E token \in Tokens, adminErr \in BOOLEAN : DocListStart(token, adminErr)
  \/ \E error \in BOOLEAN : DocListSelect(error)
  \/ \E token \in Tokens, adminErr \in BOOLEAN, form \in Forms : UploadStart(token, adminErr, form)
  \/ \E error \in BOOLEAN : UploadWrite(error)
  \/ \E error \in BOOLEAN : UploadInsert(error)
  \/ \E rmError \in BOOLEAN : UploadCleanup(rmError)
  \/ \E token \in Tokens, adminErr \in BOOLEAN, identifier \in Identifiers :
       DocDeleteStart(token, adminErr, identifier)
  \/ \E pathErr \in BOOLEAN, idErr \in BOOLEAN : DocDeleteLookup(pathErr, idErr)
  \/ \E rmError \in BOOLEAN : DocDeleteRemove(rmError)
  \/ \E delError \in BOOLEAN : DocDeleteRow(delError)
  \/ \E token \in Tokens, error \in BOOLEAN : RequestList(token, error)
  \/ \E token \in Tokens, adminErr \in BOOLEAN, id \in RequestIds :
       RequestDeleteStart(token, adminErr, id)
  \/ \E error \in BOOLEAN : RequestDeleteRow(error)

SpecAdmin == InitAdmin /\ [][NextAdmin]_vars

\* C7: every admin endpoint answers 401 to a call without a valid bearer
\* token and 403 to a call whose user is no admin, having read or written no
\* catalog row, request row or stored file; a call in flight past its first
\* step carries an admin's token (the statement of the claim).
C7_AdminEndpointsAuthorize ==
  /\ adm.pc # "idle" => adm.token = "admin"
  /\ lastAdmin.op # "none" =>
       /\ lastAdmin.token \in {"", "invalid"} => (lastAdmin.status = 401 /\ ~lastAdmin.touched)
       /\ lastAdmin.token = "user" => (lastAdmin.status = 403 /\ ~lastAdmin.touched)

\* C8: an upload whose file write succeeded and whose row insert failed has
\* attempted the removal of the file exactly once, leaves no file at the path
\* when the removal succeeded and no row for the path, and answers with the
\* insert error whether or not the removal succeeded.
C8_CleanupAfterInsertFailure ==
  /\ (adm.op = "upload" /\ adm.pc = "cleanup") =>
        (adm.path \in files /\ ~\E row \in pdfs : row.path = adm.path)
  /\ (lastAdmin.op = "upload" /\ lastAdmin.at = "cleanup") =>
        /\ lastAdmin.removes = 1
        /\ lastAdmin.removed => lastAdmin.path \notin files
        /\ ~\E row \in pdfs : row.path = lastAdmin.path
        /\ lastAdmin.status = 500
        /\ lastAdmin.error = "insertRes"

\* C8 witness: an upload answered with the insert error after its cleanup
\* failed, and the uploaded file is still in the bucket.
C8_Witness ==
  /\ lastAdmin.op = "upload"
  /\ lastAdmin.at = "cleanup"
  /\ lastAdmin.removes = 1
  /\ ~lastAdmin.removed
  /\ lastAdmin.path \in files
  /\ lastAdmin.error = "insertRes"

\* C9: after a document delete that found its row has answered, the row and
\* the stored file of the document are both present or both gone (the
\* statement of the claim).
C9_RowAndFileTogether ==
  (lastAdmin.op = "docDelete" /\ lastAdmin.at \in {"remove", "rowdelete"}) =>
    (lastAdmin.path \in files <=> \E row \in pdfs : row.path = lastAdmin.path)

----------------------------------------------------------------------------
(* SpecValidate: validateRequestData applied to one argument.               *)

\* a string of n characters c
Pad(n, c) == [i \in 1 .. n |-> c]

Courses ==
  { Undefined, Null, NonString, Str(<<>>), Str(<<" ">>), Str(<<"A">>), Str(<<" ", "A">>),
    Str(Pad(MaxCourseLen, "A")), Str(Pad(MaxCourseLen + 1, "A")),
    Str(Pad(MaxCourseLen + 1, " ")), Str(Pad(MaxCourseLen - 1, "A") \o <<" ", " ">>) }

Emails ==
  { Undefined, NonString, Str(<<" ">>), Str(<<"u", "@", "b", ".", "c">>),
    Str(<<"U", "@", "b", ".", "c">>), Str(<<" ", "u", "@", "b", ".", "c", " ">>),
    Str(<<"u", "b", ".", "c">>), Str(<<"u", " ", "@", "b", ".", "c">>),
    Str(Pad(MaxEmailLen - 4, "a") \o <<"@", "b", ".", "c">>),
    Str(Pad(MaxEmailLen - 3, "a") \o <<"@", "b", ".", "c">>),
    Str(Pad(MaxEmailLen + 1, "a")) }

MaxMarkupLen == 4
MarkupChars == {"<", ">", "b"}

Details ==
  { Undefined, Str(<<"x">>), Str(<<"<", "b", ">", "x">>), Str(Pad(MaxDetailsLen, "x")),
    Str(Pad(MaxDetailsLen + 1, "x")), Str(Pad(MaxDetailsLen + 1, " ")) }
  \cup {Str(chars) : chars \in UNION {[1 .. n -> MarkupChars] : n \in 1 .. MaxMarkupLen}}

InitValidate ==
  /\ InitCommon
  /\ InitNoAdmin
  /\ requests = <<>>
  /\ valInput \in {Json(course, email, details, TRUE) :
                     course \in Courses, email \in Emails, details \in Details}
  /\ valResult = NoValidation

\* validateRequestData(valInput) is called and returns
Validate ==
  /\ valResult = NoValidation
  /\ valResult' = validateRequestData(valInput)
  /\ UNCHANGED <<clockVars, rlVars, secVars, intakeVars, adminVars, homeVars, valInput>>

NextValidate == Validate

SpecValidate == InitValidate /\ [][NextValidate]_vars

\* the rules of the request fields that d violates
ViolatedRules(d) ==
  {r \in {"course string", "course non-empty", "course length",
          "email shape", "email length", "details length"} :
     \/ r = "course string" /\ ~IsString(d.course)
     \/ r = "course non-empty" /\ IsString(d.course) /\ Trim(d.course.chars) = <<>>
     \/ r = "course length" /\ IsString(d.course) /\ Len(d.course.chars) > 50
     \/ r = "email shape" /\ IsString(d.email) /\ Trim(d.email.chars) # <<>>
          /\ ~EmailRegexTest(Trim(d.email.chars))
     \/ r = "email length" /\ IsString(d.email) /\ Len(Trim(d.email.chars)) > 100
     \/ r = "details length" /\ IsString(d.details) /\ Len(Trim(d.details.chars)) > 500}

\* the rules an error list names
RulesNamed(errors) ==
  UNION {CASE errors[i] = "Course is required and must be a string" ->
                {"course string", "course non-empty"}
           [] errors[i] = "Course name must be 50 characters or less" -> {"course length"}
           [] errors[i] = "Course cannot be empty" -> {"course non-empty"}
           [] errors[i] = "Email format is invalid" -> {"email shape"}
           [] errors[i] = "Email must be 100 characters or less" -> {"email length"}
           [] errors[i] = "Details must be 500 characters or less" -> {"details length"}
           [] OTHER -> {} : i \in 1 .. Len(errors)}

\* C10: validateRequestData returns isValid = true exactly when its argument
\* violates no rule, and when it returns false its error list names every
\* rule the argument violates and sanitizedData is absent (the statement of
\* the claim).
C10_ErrorsNameEveryViolation ==
  valResult # NoValidation =>
    /\ valResult.isValid <=> ViolatedRules(valInput) = {}
    /\ ~valResult.isValid =>
         /\ ViolatedRules(valInput) \subseteq RulesNamed(valResult.errors)
         /\ valResult.sanitizedData = NoSanitizedData

\* C27: the details validateRequestData returns for an input it accepts hold
\* no '<' with a '>' anywhere after it, and stripping the tags of these
\* details once more gives the same details.
C27_StrippedOnce ==
  (valResult # NoValidation /\ valResult.isValid /\ IsString(valResult.sanitizedData.details)) =>
    LET d == valResult.sanitizedData.details.chars IN
    /\ \A i \in 1 .. Len(d) : \A j \in i + 1 .. Len(d) : ~(d[i] = "<" /\ d[j] = ">")
    /\ StripTags(d) = d

\* C27 witness: the accepted details "<<>>" came back as ">".
C27_Witness ==
  /\ valResult # NoValidation
  /\ valResult.isValid
  /\ valInput.details = Str(<<"<", "<", ">", ">">>)
  /\ valResult.sanitizedData.details = Str(<<">">>)

----------------------------------------------------------------------------
(* SpecBlacklist: blacklistIP called with any identifier and duration.      *)

\* the durations blacklistIP is called with, ms
Durations == {1, 2}

\* blacklistIP(ip, durationMs) is called
BlacklistCall(ip, durationMs) ==
  /\ calls < MaxBlacklistCalls
  /\ calls' = calls + 1
  /\ SetSec(blacklistIP(Sec, ip, durationMs, now))
  /\ UNCHANGED <<restVars, clockVars, rlVars, failHist, requests, hs, lastResponse,
                 requestWindow, overlap, endpointCalls>>

NextBlacklist ==
  \/ \E ip \in IPs, durationMs \in Durations : BlacklistCall(ip, durationMs)
  \/ \E tm \in PendingTimers : TimerFire(tm)
  \/ Tick(1)

SpecBlacklist == InitSec /\ [][NextBlacklist]_vars

\* C11: after a call blacklistIP(ip, d) at time t the ip is blacklisted at
\* every time in [t, t + d), whatever other blacklistIP calls were made for
\* it: an ip with a removal still to come at a later time is blacklisted
\* (the statement of the claim).
C11_BlacklistedForWholeDuration ==
  \A tm \in PendingTimers : tm.at > now => isBlacklisted(Sec, tm.ip)

----------------------------------------------------------------------------
(* SpecTerm: termForDate applied to one argument.  A string of the shape    *)
(* YYYY-MM-DD is held as its three numbers, a Date as its local fields.     *)

IsLeap(y) == (y % 4 = 0 /\ y % 100 # 0) \/ y % 400 = 0

DaysInMonth(y, m) ==
  IF m = 2 THEN (IF IsLeap(y) THEN 29 ELSE 28)
  ELSE IF m \in {4, 6, 9, 11} THEN 30 ELSE 31

\* a day number outside its month is carried into the months before or after
RECURSIVE RollDays(_, _, _)
RollDays(y, m, d) ==
  IF d < 1
    THEN LET py == IF m = 1 THEN y - 1 ELSE y
             pm == IF m = 1 THEN 12 ELSE m - 1
         IN RollDays(py, pm, d + DaysInMonth(py, pm))
  ELSE IF d > DaysInMonth(y, m)
    THEN RollDays(IF m = 12 THEN y + 1 ELSE y, IF m = 12 THEN 1 ELSE m + 1,
                  d - DaysInMonth(y, m))
  ELSE [year |-> y, month |-> m, day |-> d]

\* new Date(y, m - 1, day): years 0..99 mean 1900..1999, months and days carry
NewDate(y, m, day) ==
  LET full == IF y \in 0 .. 99 THEN 1900 + y ELSE y
      index == m - 1
  IN RollDays(full + (index \div 12), (index % 12) + 1, day)

NaN == 0 - 1
NoTerm == [term |-> "", year |-> 0]
InvalidDate == [year |-> NaN, month |-> NaN, day |-> NaN]

\* line 29, with the winter term starting one day late
WinterRangeLate(month, day) == (month = 12 /\ day >= 16) \/ (month = 1 /\ day <= 20)

\* line 29
WinterRange(month, day) == (month = 12 /\ day >= 15) \/ (month = 1 /\ day <= 20)

\* lines 24-45: the label of the Date d; comparisons with NaN are all false
TermLabel(d) ==
  IF d = InvalidDate THEN [term |-> "Fall", year |-> NaN]
  ELSE IF WinterRange(d.month, d.day)
    THEN [term |-> "Winter", year |-> IF d.month = 12 THEN d.year + 1 ELSE d.year]
  ELSE IF (d.month = 1 /\ d.day >= 21) \/ (d.month >= 2 /\ d.month <= 4)
          \/ (d.month = 5 /\ d.day <= 20)
    THEN [term |-> "Spring", year |-> d.year]
  ELSE IF (d.month = 5 /\ d.day >= 21) \/ d.month = 6 \/ d.month = 7
          \/ (d.month = 8 /\ d.day <= 20)
    THEN [term |-> "Summer", year |-> d.year]
  ELSE [term |-> "Fall", year |-> d.year]

termForDate(input) ==
  IF input.kind \in {"undefined", "null", "empty"} THEN NoTerm
  ELSE IF input.kind = "date" THEN TermLabel(input.date)
  ELSE IF input.kind = "ymd" THEN TermLabel(NewDate(input.date.year, input.date.month, input.date.day))
  ELSE NoTerm

MaxDay == 32
TermYears == {99, 2023, 2024}

\* the arguments: nothing, null, '', strings YYYY-MM-DD, a string no date can
\* be read from, Date objects of real days and the invalid Date
TermInputs ==
  {[kind |-> k, date |-> InvalidDate] : k \in {"undefined", "null", "empty", "text", "date"}}
  \cup {[kind |-> k, date |-> [year |-> y, month |-> m, day |-> d]] :
           k \in {"ymd"}, y \in TermYears, m \in 0 .. 13, d \in 0 .. MaxDay}
  \cup {[kind |-> k, date |-> [year |-> y, month |-> m, day |-> d]] :
           k \in {"date"}, y \in TermYears \ {99}, m \in {1, 5, 8, 12}, d \in 14 .. 21}

InitTerm ==
  /\ InitCommon
  /\ InitNoAdmin
  /\ requests = <<>>
  /\ valInput \in TermInputs
  /\ valResult = NoValidation

\* termForDate(valInput) is called and returns
TermCall ==
  /\ valResult = NoValidation
  /\ valResult' = termForDate(valInput)
  /\ UNCHANGED <<clockVars, rlVars, secVars, intakeVars, adminVars, homeVars, valInput>>

SpecTerm == InitTerm /\ [][TermCall]_vars

\* the argument denotes a real calendar day
ValidDate(input) ==
  /\ input.kind \in {"ymd", "date"}
  /\ input.date # InvalidDate
  /\ input.date.month \in 1 .. 12
  /\ input.date.day \in 1 .. DaysInMonth(input.date.year, input.date.month)

\* the label the partition of the calendar gives the day m/d of year y
TermOf(y, m, d) ==
  LET key == m * 100 + d IN
  IF key >= 1215 THEN [term |-> "Winter", year |-> y + 1]
  ELSE IF key <= 120 THEN [term |-> "Winter", year |-> y]
  ELSE IF key <= 520 THEN [term |-> "Spring", year |-> y]
  ELSE IF key <= 820 THEN [term |-> "Summer", year |-> y]
  ELSE [term |-> "Fall", year |-> y]

Called == "term" \in DOMAIN valResult

\* C13 (as stated): for every valid calendar date termForDate returns the
\* label of the partition Winter Dec 15 - Jan 20 (the January year), Spring
\* Jan 21 - May 20, Summer May 21 - Aug 20, Fall Aug 21 - Dec 14.
C13_TermPartition ==
  (Called /\ ValidDate(valInput)) =>
    valResult = TermOf(valInput.date.year, valInput.date.month, valInput.date.day)

\* C13 (amended): the same for every valid calendar date of year 100 or later.
C13_TermPartitionFrom100 ==
  (Called /\ ValidDate(valInput) /\ valInput.date.year >= 100) =>
    valResult = TermOf(valInput.date.year, valInput.date.month, valInput.date.day)

\* C13 witness: the string 2024-12-15 was labelled Winter 2025.
C13_Witness ==
  /\ valInput = [kind |-> "ymd", date |-> [year |-> 2024, month |-> 12, day |-> 15]]
  /\ valResult = [term |-> "Winter", year |-> 2025]

\* C14: termForDate returns the empty string for every argument that is
\* missing, null, empty or denotes no valid calendar date (the statement of
\* the claim).
C14_InvalidInputYieldsEmpty ==
  (Called /\ ~ValidDate(valInput)) => valResult = NoTerm

----------------------------------------------------------------------------
(* SpecSearch: GET /api/public/list from the query parameters on: the query *)
(* normalizer and the filters of the select.  Strings are sequences of      *)
(* characters.                                                              *)

LowerLetters ==
  {"a", "b", "c", "d", "e", "f", "g", "h", "i", "j", "k", "l", "m", "n", "o", "p", "q", "r",
   "s", "t", "u", "v", "w", "x", "y", "z"}
DigitSeq == <<"0", "1", "2", "3", "4", "5", "6", "7", "8", "9">>
Digits == {DigitSeq[i] : i \in 1 .. 10}
IsLetter(c) == LowerChar(c) \in LowerLetters

\* s.includes(sub)
Contains(s, sub) ==
  \E i \in 1 .. Len(s) - Len(sub) + 1 : \A j \in 1 .. Len(sub) : s[i + j - 1] = sub[j]

\* line 52, keeping the percent signs
SafeKeepPercent(q) == ToLowerCase(q)

\* line 52: q.toLowerCase().replace(/%/g, '')
Safe(q) == SelectSeq(ToLowerCase(q), LAMBDA c : c # "%")

\* line 55: s.split(/\s+/).filter(Boolean)
RECURSIVE Split(_)
Split(s) ==
  IF s = <<>> THEN <<>>
  ELSE IF s[1] \in Whitespace THEN Split(Tail(s))
  ELSE LET stops == {i \in 1 .. Len(s) : s[i] \in Whitespace}
           end == IF stops = {} THEN Len(s) + 1 ELSE SetMin(stops)
       IN <<SubSeq(s, 1, end - 1)>> \o Split(SubSeq(s, end, Len(s)))

\* line 58: the length of the letters of /^([a-z]+)(\d+)$/i in s, 0 without a match
CourseCodeMatch(s) ==
  LET ks == {k \in 1 .. Len(s) - 1 :
               /\ \A i \in 1 .. k : IsLetter(s[i])
               /\ \A i \in k + 1 .. Len(s) : s[i] \in Digits}
  IN IF ks = {} THEN 0 ELSE SetMin(ks)

TermNames ==
  { <<"s", "p", "r", "i", "n", "g">>, <<"s", "u", "m", "m", "e", "r">>,
    <<"f", "a", "l", "l">>, <<"w", "i", "n", "t", "e", "r">> }

\* line 62: the matches of /(spring|summer|fall|winter)\s*[-]?\s*(\d{4})/i in s,
\* each as the start, the name and the position of the year
TermMatches(s) ==
  {m \in [at : 1 .. Len(s), name : TermNames, year : 1 .. Len(s)] :
     LET after == m.at + Len(m.name)
         gap == SubSeq(s, after, m.year - 1)
         hyphens == {i \in 1 .. Len(gap) : gap[i] = "-"}
     IN /\ after - 1 <= Len(s)
        /\ m.year >= after
        /\ m.year + 3 <= Len(s)
        /\ SubSeq(ToLowerCase(s), m.at, after - 1) = m.name
        /\ \A i \in m.year .. m.year + 3 : s[i] \in Digits
        /\ \A i \in 1 .. Len(gap) : gap[i] \in Whitespace \cup {"-"}
        /\ Cardinality(hyphens) <= 1}

\* lines 66-68: the first match gives `${match[1]} ${match[2]}`.toLowerCase()
TermYearOf(s) ==
  LET ms == TermMatches(s)
      m == CHOOSE x \in ms : \A o \in ms : x.at <= o.at
  IN IF ms = {} THEN <<>>
     ELSE ToLowerCase(m.name \o <<" ">> \o SubSeq(s, m.year, m.year + 3))

\* line 65: term + ' ' + (terms[terms.indexOf(term) + 1] || '')
FullTerm(terms, term) ==
  LET first == SetMin({i \in 1 .. Len(terms) : terms[i] = term})
  IN term \o <<" ">> \o (IF first + 1 <= Len(terms) THEN terms[first + 1] ELSE <<>>)

\* lines 63-72: the value of termYear after the filter has run over all terms
RECURSIVE TermYearAfter(_, _, _)
TermYearAfter(terms, i, termYear) ==
  IF i > Len(terms) THEN termYear
  ELSE LET found == TermYearOf(FullTerm(terms, terms[i]))
       IN TermYearAfter(terms, i + 1, IF found = <<>> THEN termYear ELSE found)

\* lines 64-72
RestTerms(terms) == SelectSeq(terms, LAMBDA term : TermYearOf(FullTerm(terms, term)) = <<>>)

\* lines 75-89
RECURSIVE SearchParts(_)
SearchParts(restTerms) ==
  IF restTerms = <<>> THEN <<>>
  ELSE LET term == Head(restTerms)
           stripped == SelectSeq(term, LAMBDA c : IsLetter(c) \/ c \in Digits)
           k == CourseCodeMatch(stripped)
       IN (IF k > 0
             THEN << ToLowerCase(stripped),
                     ToLowerCase(SubSeq(stripped, 1, k) \o <<" ">>
                                 \o SubSeq(stripped, k + 1, Len(stripped))) >>
             ELSE << term >>)
          \o SearchParts(Tail(restTerms))

\* line 97: [...new Set(searchParts)].filter(Boolean)
RECURSIVE Unique(_)
Unique(parts) ==
  IF parts = <<>> THEN <<>>
  ELSE LET init == SubSeq(parts, 1, Len(parts) - 1)
           last == parts[Len(parts)]
       IN IF last = <<>> \/ \E i \in 1 .. Len(init) : init[i] = last
            THEN Unique(init) ELSE Append(Unique(init), last)

\* lines 52-97: the term/year and the patterns of the query q
Normalize(q) ==
  LET terms == Split(Safe(q))
  IN [termYear |-> TermYearAfter(terms, 1, <<>>),
      searchPatterns |-> Unique(SearchParts(RestTerms(terms)))]

\* a date as the text YYYY-MM-DD
IsoDate(d) ==
  LET Digit(n) == DigitSeq[(n % 10) + 1] IN
  << Digit(d.year \div 1000), Digit(d.year \div 100), Digit(d.year \div 10), Digit(d.year), "-",
     Digit(d.month \div 10), Digit(d.month), "-", Digit(d.day \div 10), Digit(d.day) >>

\* column ILIKE %pattern%
Ilike(column, pattern) == Contains(ToLowerCase(column), ToLowerCase(pattern))

\* lines 100-113: the OR group of one row
OrGroup(row, searchPatterns) ==
  \E i \in 1 .. Len(searchPatterns) :
    LET pattern == searchPatterns[i] IN
    \/ Ilike(row.title, pattern)
    \/ Ilike(row.professor, pattern)
    \/ Ilike(row.course_name, pattern)
    \/ Ilike(row.course_code, pattern)
    \/ Ilike(row.course_number, pattern)
    \/ Ilike(row.path, pattern)
    \/ /\ CourseCodeMatch(pattern) > 0
       /\ Ilike(ToLowerCase(row.course_code) \o row.course_number, pattern)

Doc(id, title, code, number, date) ==
  [id |-> id, title |-> title, professor |-> <<"x">>, course_name |-> <<>>, course_code |-> code,
   course_number |-> number, path |-> <<>>, date |-> date]

CatalogFill == 24

\* the rows of pdfs, newest first
Catalog ==
  << Doc(1, <<"f", "a", "l", "l", " ", "2", "0", "2", "4">>, <<"C", "S">>, <<"1">>,
         [year |-> 2025, month |-> 1, day |-> 10]),
     Doc(2, <<"2", "0", "2", "4">>, <<"C", "S">>, <<"1", "1", "1", "3">>,
         [year |-> 2024, month |-> 9, day |-> 1]),
     Doc(3, <<"2", "0", "2", "4", " ", "m", "i", "d", "t", "e", "r", "m">>, <<"A">>, <<"1">>,
         [year |-> 2024, month |-> 8, day |-> 20]) >>
  \o [i \in 1 .. CatalogFill |->
        Doc(3 + i, <<"c", "s">>, <<"C", "S">>, <<"1">>, [year |-> 2023, month |-> 1, day |-> 1])]

\* lines 44-122: the response for the parameters; an empty OR group is either
\* refused by the database or filters nothing
ListQuery(params, error, emptyOrFails) ==
  LET n == IF params.q = <<>> THEN [termYear |-> <<>>, searchPatterns |-> <<>>]
           ELSE Normalize(params.q)
      Keep(row) ==
        /\ params.course_code = <<>> \/ row.course_code = params.course_code
        /\ params.course_number = <<>> \/ row.course_number = params.course_number
        /\ params.professor = <<>> \/ row.professor = params.professor
        /\ n.termYear = <<>> \/ Ilike(IsoDate(row.date), n.termYear)
        /\ params.q = <<>> \/ n.searchPatterns = <<>> \/ OrGroup(row, n.searchPatterns)
      failed == error \/ (params.q # <<>> /\ n.searchPatterns = <<>> /\ emptyOrFails)
  IN [status |-> IF failed THEN 500 ELSE 200,
      termYear |-> n.termYear,
      searchPatterns |-> n.searchPatterns,
      data |-> IF failed THEN <<>> ELSE SelectSeq(Catalog, Keep)]

MaxQueryLen == 3
QueryChars == {"c", "S", "1", "%", " ", "-"}
QCS1113 == <<"C", "S", "1", "1", "1", "3">>
Qcs1113 == <<"c", "s", " ", "1", "1", "1", "3">>
QFall2024 == <<"F", "a", "l", "l", " ", "2", "0", "2", "4">>
QWinter2025 == <<"w", "i", "n", "t", "e", "r", " ", "2", "0", "2", "5">>

Queries ==
  UNION {[1 .. n -> QueryChars] : n \in 0 .. MaxQueryLen}
  \cup { QCS1113, Qcs1113, QFall2024,
         <<"f", "a", "l", "l", "-", "2", "0", "2", "4">>,
         QFall2024 \o <<" ", "m", "i", "d", "t", "e", "r", "m">>,
         QFall2024 \o <<" ">> \o QWinter2025 }

InitSearch ==
  /\ InitCommon
  /\ InitNoAdmin
  /\ requests = <<>>
  /\ valInput \in [q : Queries, course_code : {<<>>, <<"C", "S">>},
                   course_number : {<<>>, <<"1">>}, professor : {<<>>}]
  /\ valResult = NoValidation

\* one GET /api/public/list, after its rate limit check
SearchCall(error, emptyOrFails) ==
  /\ valResult = NoValidation
  /\ valResult' = ListQuery(valInput, error, emptyOrFails)
  /\ UNCHANGED <<clockVars, rlVars, secVars, intakeVars, adminVars, homeVars, valInput>>

NextSearch == \E error \in BOOLEAN, emptyOrFails \in BOOLEAN : SearchCall(error, emptyOrFails)

SpecSearch == InitSearch /\ [][NextSearch]_vars

Searched == "searchPatterns" \in DOMAIN valResult

\* the lower-cased query without percent signs, cut at the whitespace
TokensOf(q) ==
  LET s == [i \in 1 .. Len(q) |-> LowerChar(q[i])]
      kept == {i \in 1 .. Len(s) : s[i] # "%"}
      \* the kept positions a token starts or ends at
      starts == {i \in kept : s[i] # " " /\ \A j \in kept : j < i /\ (\A m \in kept : ~(j < m /\ m < i)) => s[j] = " "}
      TokenFrom(i) ==
        LET stop == {j \in kept : j > i /\ s[j] = " "}
            last == IF stop = {} THEN Len(s) ELSE SetMin(stop) - 1
            idx == {j \in kept : i <= j /\ j <= last}
        IN [n \in 1 .. Cardinality(idx) |->
              s[CHOOSE j \in idx : Cardinality({m \in idx : m <= j}) = n]]
  IN {TokenFrom(i) : i \in starts}

\* the patterns the rule of the normalizer gives one token
PatternsOf(token) ==
  LET alnum == {i \in 1 .. Len(token) : token[i] \in LowerLetters \cup Digits}
      letters == {i \in alnum : token[i] \in LowerLetters}
      digits == alnum \ letters
      Pick(S) == [n \in 1 .. Cardinality(S) |->
                    token[CHOOSE j \in S : Cardinality({m \in S : m <= j}) = n]]
  IN IF letters # {} /\ digits # {} /\ \A l \in letters : \A d \in digits : l < d
       THEN {Pick(alnum), Pick(letters) \o <<" ">> \o Pick(digits)}
       ELSE {token}

SeqRange(f) == {f[i] : i \in 1 .. Len(f)}

\* C15: for a query none of whose tokens contains a term name the normalizer
\* emits exactly the patterns of its tokens (a letters-digits token in its
\* concatenated and its spaced form, any other token unchanged), each once,
\* none of them empty and none containing a percent sign.
C15_PatternSet ==
  (Searched /\ valInput.q # <<>>
     /\ \A t \in TokensOf(valInput.q) : \A name \in TermNames : ~Contains(t, name)) =>
    /\ SeqRange(valResult.searchPatterns) = UNION {PatternsOf(t) : t \in TokensOf(valInput.q)}
    /\ \A i, j \in 1 .. Len(valResult.searchPatterns) :
         i # j => valResult.searchPatterns[i] # valResult.searchPatterns[j]
    /\ \A i \in 1 .. Len(valResult.searchPatterns) :
         /\ valResult.searchPatterns[i] # <<>>
         /\ "%" \notin SeqRange(valResult.searchPatterns[i])

\* C15 witness: "CS1113" gave the patterns cs1113 and cs 1113.
C15_Witness ==
  /\ valInput.q = QCS1113
  /\ Searched
  /\ valResult.searchPatterns =
       << <<"c", "s", "1", "1", "1", "3">>, <<"c", "s", " ", "1", "1", "1", "3">> >>

\* C16: a query with the pair "Fall 2024" returns exactly the rows that pass
\* the other filters and patterns and whose date termForDate puts in Fall 2024
\* (the statement of the claim).
C16_TermFilterByDate ==
  (Searched /\ valResult.status = 200 /\ valInput.q = QFall2024) =>
    SeqRange(valResult.data) =
      {row \in SeqRange(Catalog) :
         /\ valInput.course_code = <<>> \/ row.course_code = valInput.course_code
         /\ valInput.course_number = <<>> \/ row.course_number = valInput.course_number
         /\ OrGroup(row, valResult.searchPatterns)
         /\ termForDate([kind |-> "ymd", date |-> row.date]) = [term |-> "Fall", year |-> 2024]}

\* the places of the query's tokens where a term name stands right before a
\* token of four digits
TermYearPairs(tokens) ==
  {i \in 1 .. Len(tokens) - 1 :
     /\ tokens[i] \in TermNames
     /\ Len(tokens[i + 1]) = 4
     /\ \A k \in 1 .. 4 : tokens[i + 1][k] \in Digits}

\* C25: for a query whose tokens hold a term name right before a four-digit
\* year, the normalizer gives the first such pair as "<term> <year>", and its
\* patterns are those of every token but that pair's term name (the year and
\* the tokens of any later pair included).
C25_FirstTermYearPair ==
  LET tokens == Split(Safe(valInput.q))
      pairs == TermYearPairs(tokens)
      first == SetMin(pairs)
  IN (Searched /\ pairs # {}) =>
       /\ valResult.termYear = tokens[first] \o <<" ">> \o tokens[first + 1]
       /\ SeqRange(valResult.searchPatterns) =
            UNION {PatternsOf(tokens[k]) : k \in (1 .. Len(tokens)) \ {first}}

----------------------------------------------------------------------------
(* SpecPaginate: the pagination of the public page and of the admin page,   *)
(* applied to one sorted and filtered row sequence.                         *)

\* Array.prototype.slice(start, end) for 0 <= start <= end
Slice(array, start, end) ==
  IF start >= Len(array) THEN <<>>
  ELSE SubSeq(array, start + 1, IF end < Len(array) THEN end ELSE Len(array))

\* Math.ceil(length / pageSize)
TotalPages(length, pageSize) == (length + pageSize - 1) \div pageSize

\* line 661, starting one page late
PageStartNextPage(currentPage, pageSize) == currentPage * pageSize

\* line 661: const start = (currentPage - 1) * pageSize
PageStart(currentPage, pageSize) == (currentPage - 1) * pageSize

\* lines 660-664
PaginatedRows(sorted, currentPage, pageSize) ==
  LET start == PageStart(currentPage, pageSize)
      end == start + pageSize
  IN Slice(sorted, start, end)

\* lines 656-664: what one render computes
Pagination(sorted, currentPage, pageSize) ==
  [totalPages |-> TotalPages(Len(sorted), pageSize),
   startIndex |-> (currentPage - 1) * pageSize + 1,
   endIndex |-> IF currentPage * pageSize < Len(sorted) THEN currentPage * pageSize ELSE Len(sorted),
   paginatedRows |-> PaginatedRows(sorted, currentPage, pageSize)]

MaxRows == 101
PageSizes == {25, 50, 100}
SortedRows(n) == [i \in 1 .. n |-> i]

InitPaginate ==
  /\ InitCommon
  /\ InitNoAdmin
  /\ requests = <<>>
  /\ valInput \in {in \in [sorted : {SortedRows(n) : n \in 0 .. MaxRows}, pageSize : PageSizes,
                           currentPage : 1 .. MaxRows] :
                     in.currentPage <= TotalPages(Len(in.sorted), in.pageSize) \/ in.currentPage = 1}
  /\ valResult = NoValidation

\* one render of the list
Render ==
  /\ valResult = NoValidation
  /\ valResult' = Pagination(valInput.sorted, valInput.currentPage, valInput.pageSize)
  /\ UNCHANGED <<clockVars, rlVars, secVars, intakeVars, adminVars, homeVars, valInput>>

SpecPaginate == InitPaginate /\ [][Render]_vars

Rendered == "paginatedRows" \in DOMAIN valResult

RECURSIVE ConcatPages(_, _, _)
ConcatPages(sorted, pageSize, k) ==
  IF k = 0 THEN <<>>
  ELSE ConcatPages(sorted, pageSize, k - 1) \o PaginatedRows(sorted, k, pageSize)

\* C17: for R rows and page size P the number of pages is ceil(R/P), page k
\* shows exactly the rows at positions (k-1)*P .. min(k*P, R)-1, every row
\* is on exactly one page and the pages in order make up the whole sequence.
C17_PagesPartitionRows ==
  Rendered =>
    LET R == Len(valInput.sorted)
        P == valInput.pageSize
        k == valInput.currentPage
        pages == valResult.totalPages
        last == IF k * P < R THEN k * P ELSE R
    IN /\ pages * P >= R /\ (R > 0 => (pages - 1) * P < R) /\ (R = 0 => pages = 0)
       /\ k <= pages =>
            /\ Len(valResult.paginatedRows) = last - (k - 1) * P
            /\ \A i \in 1 .. Len(valResult.paginatedRows) :
                 valResult.paginatedRows[i] = valInput.sorted[(k - 1) * P + i]
       /\ \A row \in 1 .. R :
            Cardinality({j \in 1 .. pages :
                           \E i \in 1 .. Len(PaginatedRows(valInput.sorted, j, P)) :
                             PaginatedRows(valInput.sorted, j, P)[i] = row}) = 1
       /\ ConcatPages(valInput.sorted, P, pages) = valInput.sorted

\* C17 witness: 51 rows at 25 per page, page 3 of 3 shows the last row alone.
C17_Witness ==
  /\ Rendered
  /\ Len(valInput.sorted) = 51 /\ valInput.pageSize = 25 /\ valInput.currentPage = 3
  /\ valResult.totalPages = 3
  /\ valResult.paginatedRows = <<51>>

----------------------------------------------------------------------------
(* SpecHome: the public page.  undefined and '' are both the empty string;  *)
(* rows and allRows hold the ids of the catalogue rows they were given.  A  *)
(* change of state made in an event handler is committed together with the  *)
(* effects that depend on it.  The fetches that were aborted and have not  *)
(* completed yet are kept as one flag: each of them completes as a no-op.   *)

MaxClicks == 4
HomeQueries == {<<>>, <<"a">>}
SortFields == {"courseCode", "professor", "date"}

\* lines 443-468 after the effects of the first render: both fetches and the
\* debounce timer are started
InitialHome ==
  [rows |-> <<>>, allRows |-> <<>>, filtered |-> <<>>, loading |-> TRUE,
   courseCode |-> <<>>, courseNumber |-> <<>>, professor |-> <<>>,
   q |-> <<>>, debouncedQ |-> <<>>, sortField |-> "courseCode", sortOrder |-> "asc",
   modal |-> [isOpen |-> FALSE, type |-> "info"], currentPage |-> 1, pageSize |-> 50]

\* lines 489-494: the parameters of the fetch
Params(h) ==
  [q |-> h.q, course_code |-> h.courseCode, course_number |-> h.courseNumber,
   professor |-> h.professor]

\* line 669: the dependencies of the reset of the page
ResetDeps(h) == <<h.courseCode, h.courseNumber, h.professor, h.debouncedQ, h.sortField, h.sortOrder>>

Ids(data) == [i \in 1 .. Len(data) |-> data[i].id]

\* lines 560-568
CourseCodesOf(allRows) == {Catalog[id].course_code : id \in SeqRange(allRows)} \ {<<>>}

\* lines 570-581
CourseNumbersOf(h) ==
  IF h.courseCode = <<>> THEN {}
  ELSE {Catalog[id].course_number :
          id \in {i \in SeqRange(h.allRows) : Catalog[i].course_code = h.courseCode}} \ {<<>>}

\* lines 583-594
ProfessorsOf(h) ==
  IF h.courseCode = <<>> \/ h.courseNumber = <<>> THEN {}
  ELSE {Catalog[id].professor :
          id \in {i \in SeqRange(h.allRows) :
                    /\ Catalog[i].course_code = h.courseCode
                    /\ Catalog[i].course_number = h.courseNumber}} \ {<<>>}

\* s.replace(/\s+/g, '-')
RECURSIVE HyphenateSpaces(_)
HyphenateSpaces(s) ==
  IF s = <<>> THEN <<>>
  ELSE IF s[1] \in Whitespace
    THEN IF Len(s) > 1 /\ s[2] \in Whitespace THEN HyphenateSpaces(Tail(s))
         ELSE <<"-">> \o HyphenateSpaces(Tail(s))
  ELSE <<s[1]>> \o HyphenateSpaces(Tail(s))

\* lines 608-618: searchTextWithSpaces and searchTextWithHyphens of each row
SearchTexts ==
  [id \in 1 .. Len(Catalog) |->
     LET r == Catalog[id]
         date == IsoDate(r.date)
         Text(d) ==
           ToLowerCase(r.title) \o <<" ">> \o ToLowerCase(r.professor) \o <<" ">>
             \o ToLowerCase(r.course_name) \o <<" ">> \o ToLowerCase(r.course_code) \o <<" ">>
             \o ToLowerCase(r.course_number) \o <<" ">> \o d \o <<" ">> \o ToLowerCase(r.path)
     IN [withSpaces |-> Text([i \in 1 .. Len(date) |-> IF date[i] = "-" THEN " " ELSE date[i]]),
         withHyphens |-> Text(date)]]

\* lines 596-623
Filtered(h) ==
  LET termWithSpaces == ToLowerCase(Trim(h.debouncedQ))
      termWithHyphens == HyphenateSpaces(termWithSpaces)
      Keep(id) ==
        LET r == Catalog[id]
        IN /\ h.courseCode = <<>> \/ r.course_code = h.courseCode
           /\ h.courseNumber = <<>> \/ r.course_number = h.courseNumber
           /\ h.professor = <<>> \/ r.professor = h.professor
           /\ \/ termWithSpaces = <<>>
              \/ Contains(SearchTexts[id].withSpaces, termWithSpaces)
              \/ Contains(SearchTexts[id].withHyphens, termWithHyphens)
  IN SelectSeq(h.rows, Keep)

\* line 623: the dependencies of filtered
FilterDeps(h) == <<h.rows, h.courseCode, h.courseNumber, h.professor, h.debouncedQ>>

\* the value of the useMemo of lines 596-623 is kept with the state and
\* computed again when a dependency has changed
Memo(h) == IF FilterDeps(h) = FilterDeps(home) THEN h ELSE [h EXCEPT !.filtered = Filtered(h)]

\* line 656; sorting keeps the length
HomeTotalPages(h) == TotalPages(Len(h.filtered), h.pageSize)

\* line 1096: the pagination controls are rendered
ControlsShown(h) == Len(h.filtered) > 0

homeFrame == <<clockVars, rlVars, secVars, requests, hs, lastResponse, requestWindow, overlap,
               endpointCalls, adminVars, valVars>>

\* the state h is rendered and the effects whose dependencies changed run:
\* lines 474-480 restart the timer, lines 482-522 replace the fetch (the
\* cleanup of lines 517-520 aborts the one in flight, whose completion is
\* still to come), lines 667-669 set the page to 1
Commit(h, n, event, pageSet) ==
  LET load == Params(h) # Params(home)
      reset == ResetDeps(h) # ResetDeps(home)
      timer == h.q # home.q
  IN /\ home' = Memo([h EXCEPT !.currentPage = IF reset THEN 1 ELSE @,
                               !.loading = IF load THEN TRUE ELSE @])
     /\ net' = [n EXCEPT !.load = @ \/ load, !.timer = @ \/ timer,
                         !.aborted = @ \/ (load /\ n.load)]
     /\ seen' = [event |-> event,
                 failed |-> seen.failed,
                 rowsCurrent |-> seen.rowsCurrent /\ ~load,
                 pageQ |-> IF reset \/ pageSet THEN h.q ELSE seen.pageQ,
                 options |-> CourseCodesOf(home.allRows),
                 professor |-> home.professor]
     /\ UNCHANGED homeFrame

\* an event of the user
User(h, event, pageSet) ==
  /\ calls < MaxClicks
  /\ calls' = calls + 1
  /\ Commit(h, net, event, pageSet)

\* lines 696-700
AfterCode(h, value) == [h EXCEPT !.courseNumber = <<>>, !.professor = <<>>, !.courseCode = value]

\* lines 773-776, without line 774
AfterNumberKeepProfessor(h, value) == [h EXCEPT !.courseNumber = value]

\* lines 773-776
AfterNumber(h, value) == [h EXCEPT !.professor = <<>>, !.courseNumber = value]

SelectCourseCode(value) ==
  /\ value \in CourseCodesOf(home.allRows) \/ (value = <<>> /\ home.courseCode # <<>>)
  /\ User(AfterCode(home, value), "selectCode", FALSE)

\* line 764: the select is rendered once a course code is chosen
SelectCourseNumber(value) ==
  /\ home.courseCode # <<>>
  /\ value \in CourseNumbersOf(home) \/ (value = <<>> /\ home.courseNumber # <<>>)
  /\ User(AfterNumber(home, value), "selectNumber", FALSE)

\* lines 841-851
SelectProfessor(value) ==
  /\ home.courseCode # <<>> /\ home.courseNumber # <<>>
  /\ value \in ProfessorsOf(home) \/ (value = <<>> /\ home.professor # <<>>)
  /\ User([home EXCEPT !.professor = value], "selectProfessor", FALSE)

\* line 930
SetSortField(field) == User([home EXCEPT !.sortField = field], "sortField", FALSE)

\* line 988
ToggleSortOrder ==
  User([home EXCEPT !.sortOrder = IF @ = "asc" THEN "desc" ELSE "asc"], "sortOrder", FALSE)

\* line 1013
Type(text) ==
  /\ text # home.q
  /\ User([home EXCEPT !.q = text], "type", FALSE)

\* lines 1126-1131
SetPageSize(size) ==
  /\ ControlsShown(home)
  /\ User([home EXCEPT !.pageSize = size, !.currentPage = 1], "pageSize", TRUE)

\* lines 1191-1193
PrevPage ==
  /\ ControlsShown(home)
  /\ home.currentPage # 1
  /\ User([home EXCEPT !.currentPage = IF @ - 1 > 1 THEN @ - 1 ELSE 1], "prevPage", TRUE)

\* lines 1235-1237
NextPage ==
  /\ ControlsShown(home)
  /\ home.currentPage # HomeTotalPages(home)
  /\ User([home EXCEPT !.currentPage = IF @ + 1 < HomeTotalPages(home) THEN @ + 1
                                       ELSE HomeTotalPages(home)], "nextPage", TRUE)

\* lines 1213-1218
PageInputChange(value) ==
  /\ ControlsShown(home)
  /\ value >= 1 /\ value <= HomeTotalPages(home)
  /\ User([home EXCEPT !.currentPage = value], "pageInput", TRUE)

\* lines 1219-1226
PageInputBlur(value) ==
  /\ ControlsShown(home)
  /\ value < 1 \/ value > HomeTotalPages(home)
  /\ User([home EXCEPT !.currentPage = IF value < 1 THEN 1 ELSE HomeTotalPages(home)],
          "pageBlur", TRUE)

\* line 1336: the request form reports its outcome
ShowMessage(type) ==
  User([home EXCEPT !.modal = [isOpen |-> TRUE, type |-> type]], "message", FALSE)

\* line 1327
CloseModal ==
  /\ home.modal.isOpen
  /\ User([home EXCEPT !.modal = [isOpen |-> FALSE, type |-> "info"]], "closeModal", FALSE)

\* lines 475-477: the timer of the search box fires
DebounceFire ==
  /\ net.timer
  /\ Commit([home EXCEPT !.debouncedQ = home.q], [net EXCEPT !.timer = FALSE], "debounce", FALSE)
  /\ UNCHANGED calls

\* lines 495-513, res.ok: the endpoint answered with its rows
LoadDone ==
  /\ net.load
  /\ LET res == ListQuery(Params(home), FALSE, FALSE) IN
     home' = Memo([home EXCEPT !.rows = Ids(res.data), !.loading = FALSE])
  /\ net' = [net EXCEPT !.load = FALSE]
  /\ seen' = [seen EXCEPT !.event = "loaded", !.rowsCurrent = TRUE]
  /\ UNCHANGED <<homeFrame, calls>>

\* lines 500-502 and 510-513: the fetch rejects or the status is not ok
LoadFailed ==
  /\ net.load
  /\ home' = [home EXCEPT !.loading = FALSE]
  /\ net' = [net EXCEPT !.load = FALSE]
  /\ seen' = [seen EXCEPT !.event = "loadFailed", !.failed = TRUE]
  /\ UNCHANGED <<homeFrame, calls>>

\* lines 495-513 after the cleanup of lines 517-520 ran: the fetch rejects
\* with an AbortError (line 511) or its response arrives and line 504
\* returns; line 513 leaves loading alone
AbortedDone ==
  /\ net.aborted
  /\ net' = [net EXCEPT !.aborted = FALSE]
  /\ UNCHANGED <<home, seen, homeFrame, calls>>

\* lines 532-545, res.ok
LoadAllDone ==
  /\ net.loadAll
  /\ LET res == ListQuery(Params(InitialHome), FALSE, FALSE) IN
     home' = Memo([home EXCEPT !.allRows = Ids(res.data), !.rows = Ids(res.data),
                               !.loading = FALSE])
  /\ net' = [net EXCEPT !.loadAll = FALSE]
  /\ seen' = [seen EXCEPT !.event = "loadedAll", !.rowsCurrent = (Params(home) = Params(InitialHome))]
  /\ UNCHANGED <<homeFrame, calls>>

\* lines 536-538 and 546-549
LoadAllFailed ==
  /\ net.loadAll
  /\ home' = [home EXCEPT !.loading = FALSE]
  /\ net' = [net EXCEPT !.loadAll = FALSE]
  /\ seen' = [seen EXCEPT !.event = "loadFailed", !.failed = TRUE]
  /\ UNCHANGED <<homeFrame, calls>>

InitHome ==
  /\ InitServer
  /\ InitNoAdmin
  /\ InitNoValidate
  /\ requests = <<>>
  /\ home = InitialHome
  /\ net = [load |-> TRUE, loadAll |-> TRUE, timer |-> TRUE, aborted |-> FALSE]
  /\ seen = [event |-> "mount", failed |-> FALSE, rowsCurrent |-> FALSE, pageQ |-> <<>>, options |-> {},
             professor |-> <<>>]

NextHome ==
  \/ \E value \in {<<>>} \cup CourseCodesOf(home.allRows) : SelectCourseCode(value)
  \/ \E value \in {<<>>} \cup CourseNumbersOf(home) : SelectCourseNumber(value)
  \/ \E value \in {<<>>} \cup ProfessorsOf(home) : SelectProfessor(value)
  \/ \E field \in SortFields : SetSortField(field)
  \/ ToggleSortOrder
  \/ \E text \in HomeQueries : Type(text)
  \/ \E size \in PageSizes : SetPageSize(size)
  \/ PrevPage
  \/ NextPage
  \/ \E value \in 0 .. 3 : PageInputChange(value) \/ PageInputBlur(value)
  \/ \E type \in {"success", "error"} : ShowMessage(type)
  \/ CloseModal
  \/ DebounceFire
  \/ LoadDone
  \/ LoadFailed
  \/ AbortedDone
  \/ LoadAllDone
  \/ LoadAllFailed

SpecHome == InitHome /\ [][NextHome]_vars

\* C18: no list fetched for the current filters and search text is shown
\* while the page number is one that was set under another search text;
\* changes of the filters and of the sorting set the page to 1 in the same
\* commit (the statement of the claim).
C18_PageResetBeforeListShown ==
  (~home.loading /\ seen.rowsCurrent /\ seen.pageQ # home.q) => home.currentPage = 1

\* C19: the course-code options are the distinct codes of the unfiltered rows
\* and no selection changes them; selecting or clearing a code leaves number
\* and professor cleared, selecting or clearing a number leaves the professor
\* cleared; a professor is selected only with a number, a number only with a
\* code.
C19_DropdownHierarchy ==
  /\ home.allRows # <<>> =>
       CourseCodesOf(home.allRows) = {Catalog[i].course_code : i \in 1 .. Len(Catalog)}
  /\ seen.event \in {"selectCode", "selectNumber", "selectProfessor"} =>
       CourseCodesOf(home.allRows) = seen.options
  /\ seen.event = "selectCode" => home.courseNumber = <<>> /\ home.professor = <<>>
  /\ seen.event = "selectNumber" => home.professor = <<>>
  /\ home.professor # <<>> => home.courseNumber # <<>>
  /\ home.courseNumber # <<>> => home.courseCode # <<>>

\* C19 witness: a course number was chosen while code, number and professor
\* were all selected, and the professor is cleared.
C19_Witness ==
  /\ seen.event = "selectNumber"
  /\ seen.professor # <<>>
  /\ home.courseCode = <<"C", "S">>
  /\ home.courseNumber = <<"1", "1", "1", "3">>
  /\ home.professor = <<>>

\* C20: after a list fetch has failed the failure is visible to the user: an
\* error message is open (the statement of the claim).
C20_FetchFailureVisible ==
  seen.event = "loadFailed" => (home.modal.isOpen /\ home.modal.type = "error")

\* no fetch is in flight and none has failed
Settled == ~net.load /\ ~net.loadAll /\ ~net.aborted /\ ~seen.failed

\* C24: whatever the order in which the fetches complete, once no fetch is
\* in flight the rows held by the page are the answer of the endpoint to the
\* current filters and search text.
C24_RowsAnswerCurrentQuery ==
  Settled => home.rows = Ids(ListQuery(Params(home), FALSE, FALSE).data)

\* C29: whenever the filtered rows of the public page are not empty, the
\* current page lies between 1 and the number of pages, so the page shown
\* holds a row.
C29_PageWithinRange ==
  Len(home.filtered) > 0 =>
    /\ 1 <= home.currentPage
    /\ home.currentPage <= HomeTotalPages(home)

\* the rows of data the public page lists under the filters and the search
\* text of params, once its debounce timer has fired
Displayed(params, data) ==
  Filtered([InitialHome EXCEPT !.rows = Ids(data), !.q = params.q, !.debouncedQ = params.q,
                               !.courseCode = params.course_code,
                               !.courseNumber = params.course_number,
                               !.professor = params.professor])

\* C30: every row the endpoint returns for a search text passes the filter
\* of the page for the same text: the page lists the whole response.
C30_ClientKeepsServerRows ==
  (Searched /\ valResult.status = 200) =>
    Displayed(valInput, valResult.data) = Ids(valResult.data)

====
